---- MODULE Spec2Model ----
(***************************************************************************)
(* A model of cms/db/filecacher.py: the FileCacher, its local mirror and   *)
(* scratch directory, and the four storage backends (FSBackend, DBBackend, *)
(* S3Backend, NullBackend).                                                *)
(*                                                                         *)
(* Granularity.  One unit of content ("block") stands for one CHUNK_SIZE   *)
(* buffer, so a content is the sequence of buffers the copy loops move.    *)
(* Tasks are greenlets; tasks with the same FileCacher run in one process  *)
(* and switch only at gevent yield points, tasks of different FileCachers  *)
(* (different processes sharing one backend) interleave at every step.     *)
(* The field ny of a task says that it is inside an atomic section of its  *)
(* process (no yield has happened since its last step).                    *)
(***************************************************************************)
EXTENDS Integers, Sequences, FiniteSets, TLC

\* ------------------------------------------------------------------ bounds
\* Longest content, in CHUNK_SIZE buffers.
MaxLen == 1
\* Greenlets / callers.
NTasks == 2
\* FileCacher instances (processes) that share the backend.
NCachers == 2
\* Operations one task starts in one behaviour.
MaxOps == 2
\* Characters of a digest (a real SHA-1 hex digest has 40).
DigestWidth == 2
\* Longest source of a copyfileobj run, in bytes.
CopyLen == 3
\* Greatest buffer_size of a copyfileobj run, in bytes.
MaxBuf == 2

\* The values one buffer can take.
Blocks == {0, 1}

Tasks == 1..NTasks
Cachers == 1..NCachers

RECURSIVE SeqsUpTo(_)
SeqsUpTo(n) ==
  IF n = 0 THEN {<<>>}
  ELSE LET S == SeqsUpTo(n - 1)
       IN  S \cup {Append(s, b) : s \in {x \in S : Len(x) = n - 1}, b \in Blocks}

\* Every content a caller may hand to put.
Contents == SeqsUpTo(MaxLen)

\* --------------------------------------------------------------- digests
HexDigits == <<"0", "1", "2", "3", "4", "5", "6", "7",
               "8", "9", "a", "b", "c", "d", "e", "f">>

RECURSIVE Hex(_, _)
\* n written with w hexadecimal digits, most significant first.
Hex(n, w) ==
  IF w = 0 THEN <<>>
  ELSE Append(Hex(n \div 16, w - 1), HexDigits[(n % 16) + 1])

\* Digester(): the state of a fresh incremental hash.
DigesterNew == 0

\* Digester.update(buf): absorb one buffer.  The hash is idealised as
\* collision free on the contents of the model: the state is the bijective
\* numeral of the buffers seen so far.
DigesterUpdate(h, b) == h * Cardinality(Blocks) + b + 1

\* Digester.digest(): the hexadecimal text of the state.
DigesterDigest(h) == Hex(h, DigestWidth)

RECURSIVE HashAll(_, _)
\* The digester state after the buffers of data were absorbed in order.
HashAll(h, data) ==
  IF data = <<>> THEN h
  ELSE HashAll(DigesterUpdate(h, Head(data)), Tail(data))

\* The digest of a whole content.
Digest(data) == DigesterDigest(HashAll(DigesterNew, data))

\* FileCacher.TOMBSTONE_DIGEST = "x"
TOMBSTONE_DIGEST == <<"x">>

\* Digests a caller may ask for: those of the contents, and the sentinel.
Digests == {Digest(c) : c \in Contents} \cup {TOMBSTONE_DIGEST}

Descs == {"", "d"}

GetForms == {"get_file", "get_file_content", "get_file_to_fobj", "get_file_to_path"}

Kinds == {"FS", "DB", "S3", "Null"}

\* ------------------------------------------------------------- variables
VARIABLES
  kind,       \* the backend the FileCachers were constructed with
  store,      \* backend, committed: key -> [data, desc]
  staged,     \* backend, staging artefacts: id -> [digest, data]
  mirror,     \* per FileCacher: files of file_dir, name -> data
  scratch,    \* per FileCacher: files of temp_dir, id -> data
  tempdir,    \* per FileCacher: the directory temp_dir exists
  fc,         \* task -> its FileCacher
  task,       \* task -> the state of its running operation
  sentinel,   \* ghost: a backend operation was called with the sentinel
  fixedB,     \* the content the racing puts use
  cp          \* a run of copyfileobj on its own: files, buffer, position

vars == <<kind, store, staged, mirror, scratch, tempdir, fc, task, sentinel,
         fixedB, cp>>
backendVars == <<store, staged>>
localVars == <<mirror, scratch, tempdir>>
envVars == <<kind, fc, fixedB, cp>>

\* ------------------------------------------------------- small helpers
\* A function without key k.
Without(f, k) == [x \in DOMAIN f \ {k} |-> f[x]]

\* A function with key k (re)bound to v.
With(f, k, v) == [x \in DOMAIN f \cup {k} |-> IF x = k THEN v ELSE f[x]]

\* A directory, a table or a bucket with nothing in it.
NoFiles == [x \in {} |-> <<>>]

\* No run of copyfileobj on its own.
NoCopy == [pc |-> "off", inp |-> <<>>, src |-> <<>>, buf |-> <<>>,
           dst |-> <<>>, size |-> 1, none |-> FALSE, short |-> FALSE]

\* The least identifier not in use in f.
FreshId(f) == CHOOSE i \in 1..(Cardinality(DOMAIN f) + 1) :
                 /\ i \notin DOMAIN f
                 /\ \A j \in 1..(i - 1) : j \in DOMAIN f

NoResult == [op |-> "none", arg |-> <<>>, inp |-> <<>>, out |-> "none",
             data |-> <<>>, flag |-> FALSE, desc |-> "", size |-> 0,
             calls |-> 0, del |-> FALSE, snap |-> {}, had |-> FALSE,
             raced |-> FALSE, darg |-> "", got |-> "none", ret |-> "none",
             over |-> FALSE, ifn |-> FALSE]

IdleTask == [pc |-> "idle", op |-> "none", arg |-> <<>>, inp |-> <<>>,
             desc |-> "", ifn |-> FALSE, del |-> FALSE,
             src |-> <<>>, h |-> 0, tmp |-> 0, hnd |-> 0, saw |-> FALSE,
             todo |-> {}, snap |-> {}, clean |-> TRUE, ny |-> FALSE, calls |-> 0,
             n |-> 0, last |-> NoResult, prev |-> NoResult, mono |-> "none",
             had |-> FALSE, raced |-> FALSE, got |-> "none", ret |-> "none",
             over |-> FALSE]

OffTask == [IdleTask EXCEPT !.pc = "off"]

\* --------------------------------------------------------------- backends
\* The name of the staging file FSBackend.create_file makes for handle i:
\* prefix ".tmp.", a unique part, and the digest as suffix.
FSTmpName(i, d) == <<".tmp.", HexDigits[i + 1]>> \o d

\* The directory of an FSBackend: committed files and staging files.
FSDir(st, sg) ==
  [n \in DOMAIN st \cup {FSTmpName(i, sg[i].digest) : i \in DOMAIN sg} |->
     IF n \in DOMAIN st THEN st[n].data
     ELSE sg[CHOOSE i \in DOMAIN sg : FSTmpName(i, sg[i].digest) = n].data]

\* config.s3_backend_prefix
S3Prefix == <<"c", "/">>

\* S3Backend._s3_key
S3Key(d) == S3Prefix \o SubSeq(d, 1, IF Len(d) < 2 THEN Len(d) ELSE 2) \o <<"/">> \o d

\* Where a backend keeps the committed blob of digest d.
BKey(k, d) == IF k = "S3" THEN S3Key(d) ELSE d

\* os.path.exists / FSObject.get_from_digest / head_object: is d there?
BExists(k, st, sg, d) ==
  CASE k = "FS" -> d \in DOMAIN FSDir(st, sg)
    [] k = "DB" -> d \in DOMAIN st
    [] k = "S3" -> S3Key(d) \in DOMAIN st
    [] OTHER    -> FALSE

\* backend.get_file(d): the bytes read from the returned stream; ok is
\* FALSE for KeyError.
BGetFile(k, st, sg, d) ==
  IF ~BExists(k, st, sg, d) THEN [ok |-> FALSE, data |-> <<>>]
  ELSE [ok |-> TRUE,
        data |-> IF k = "FS" THEN FSDir(st, sg)[d] ELSE st[BKey(k, d)].data]

\* backend.describe(d); ok is FALSE for KeyError.
BDescribe(k, st, sg, d) ==
  IF ~BExists(k, st, sg, d) THEN [ok |-> FALSE, desc |-> ""]
  ELSE [ok |-> TRUE, desc |-> IF k = "DB" THEN st[d].desc ELSE ""]

\* backend.get_size(d), in buffers; ok is FALSE for KeyError.
BGetSize(k, st, sg, d) ==
  LET r == BGetFile(k, st, sg, d) IN [ok |-> r.ok, size |-> Len(r.data)]

\* BDeleteStore that removes every blob whose key begins like that of d.
BDeleteStoreMutant(k, st, d) ==
  IF k = "Null" THEN st
  ELSE [x \in {y \in DOMAIN st : Head(y) # Head(BKey(k, d))} |-> st[x]]

\* backend.delete(d): the committed part afterwards.
BDeleteStore(k, st, d) ==
  IF k = "Null" THEN st ELSE Without(st, BKey(k, d))

\* backend.delete(d): the staging part afterwards (os.unlink of an
\* FSBackend path removes a staging file when d is its name).
BDeleteStaged(k, st, sg, d) ==
  IF k = "FS" /\ d \notin DOMAIN st
  THEN [i \in {j \in DOMAIN sg : FSTmpName(j, sg[j].digest) # d} |-> sg[i]]
  ELSE sg

\* S3Backend.list evaluates pager['Contents'] on the paginator itself and
\* raises before it returns anything.
BListRaises(k) == k = "S3"

\* backend.list(): the set of (digest, description) pairs.
BList(k, st, sg) ==
  CASE k = "FS" -> {<<n, "">> : n \in DOMAIN FSDir(st, sg)}
    [] k = "DB" -> {<<d, st[d].desc>> : d \in DOMAIN st}
    [] OTHER    -> {}

\* BCreateNone with a discard backend that hands out staging handles.
BCreateNoneMutant(k, st, sg, d) ==
  CASE k = "FS" -> d \in DOMAIN FSDir(st, sg)
    [] k = "DB" -> d \in DOMAIN st
    [] OTHER    -> FALSE

\* backend.create_file(d) returns None.
BCreateNone(k, st, sg, d) ==
  CASE k = "FS" -> d \in DOMAIN FSDir(st, sg)
    [] k = "DB" -> d \in DOMAIN st
    [] k = "S3" -> FALSE
    [] OTHER    -> TRUE

\* backend.create_file(d) returning a handle: the staging part afterwards
\* (a temporary file, or a large object not yet in the catalog).
BCreateStaged(sg, d) == With(sg, FreshId(sg), [digest |-> d, data |-> <<>>])

\* fobj.write(buf) on a staging handle; a handle whose file was unlinked
\* meanwhile takes the write and keeps nothing.
BWrite(sg, i, b) ==
  IF i \in DOMAIN sg THEN [sg EXCEPT ![i].data = Append(@, b)] ELSE sg

\* commit_file finds the digest stored already: os.path.exists (FS),
\* the uniqueness violation (DB), a successful head_object (S3).
BCommitSees(k, st, sg, d) ==
  CASE k = "FS" -> d \in DOMAIN FSDir(st, sg)
    [] k = "DB" -> d \in DOMAIN st
    [] k = "S3" -> S3Key(d) \in DOMAIN st
    [] OTHER    -> TRUE

\* BCommitStore that leaves the blob under the name of its staging file.
BCommitStoreMutant(k, st, sg, i, d, desc) ==
  With(st, IF k = "FS" THEN FSTmpName(i, d) ELSE BKey(k, d),
       [data |-> sg[i].data, desc |-> ""])

\* The committed part after a commit that stores handle i under d:
\* os.rename, the catalog insert, upload_fileobj.
BCommitStore(k, st, sg, i, d, desc) ==
  With(st, BKey(k, d),
       [data |-> sg[i].data, desc |-> IF k = "DB" THEN desc ELSE ""])

\* What commit_file returns after it stored the blob: True, and None from
\* S3Backend, which ends without a return statement.
CommitStored(k) == IF k = "S3" THEN "None" ELSE "True"

\* What commit_file returns when it found the digest stored: False, and
\* None from S3Backend.
CommitExisted(k) == IF k = "S3" THEN "None" ELSE "False"

\* The blobs a backend holds, as (digest, bytes) pairs; for S3Backend the
\* digest is the trailing path segment of the key.  The ghost field snap of
\* a running check is this set as it was when the check started.
BEntries(k, st, sg) ==
  CASE k = "FS" -> {<<n, FSDir(st, sg)[n]>> : n \in DOMAIN FSDir(st, sg)}
    [] k = "DB" -> {<<d, st[d].data>> : d \in DOMAIN st}
    [] k = "S3" -> {<<SubSeq(key, Len(S3Prefix) + 4, Len(key)), st[key].data>> :
                      key \in DOMAIN st}
    [] OTHER    -> {}

\* ------------------------------------------------------------ scheduling
\* Task t may take a step: no other greenlet of its process is inside an
\* atomic section.
CanRun(t) ==
  /\ task[t].pc # "off"
  /\ \A u \in Tasks \ {t} : fc[u] = fc[t] => ~task[u].ny

\* Task t may start an operation.
Idle(t) == task[t].pc = "idle" /\ task[t].n < MaxOps /\ CanRun(t)

\* The task record when an operation starts; the ghost field had says
\* whether the backend held the digest at that moment (for save and put: at
\* the moment of create_file).  The ghost fields got and ret are what
\* create_file and commit_file returned to the operation, and over says that
\* its rename into the mirror replaced an entry that was there.
Started(t, op, d, B, desc) ==
  [task[t] EXCEPT !.op = op, !.arg = d, !.inp = B, !.desc = desc,
                  !.n = @ + 1, !.calls = 0, !.ny = TRUE,
                  !.had = BExists(kind, store, staged, d),
                  !.got = "none", !.ret = "none", !.over = FALSE]

\* The task record when the running operation of record r ends with outcome
\* out; mono follows whether all operations so far were puts of one content
\* with one description.
Ended(r, out, data, flag, desc, size) ==
  [IdleTask EXCEPT
     !.n = r.n,
     !.prev = r.last,
     !.last = [op |-> r.op, arg |-> r.arg, inp |-> r.inp, out |-> out,
               data |-> data, flag |-> flag, desc |-> desc, size |-> size,
               calls |-> r.calls, del |-> r.del, snap |-> r.snap,
               had |-> r.had, raced |-> r.raced, darg |-> r.desc,
               got |-> r.got, ret |-> r.ret, over |-> r.over,
               ifn |-> r.ifn],
     !.mono = IF /\ r.op = "put"
                 /\ \/ r.mono = "none"
                    \/ /\ r.mono = "same"
                       /\ r.last.inp = r.inp
                       /\ r.last.darg = r.desc
              THEN "same" ELSE "mixed"]

\* The task record when commit_file, the last call of save, returns;
\* stored says that this call put the blob in place.
CommitEnds(r, stored) ==
  Ended([r EXCEPT !.ret = IF stored THEN CommitStored(kind)
                            ELSE CommitExisted(kind)],
        "ok", <<>>, stored, "", 0)

\* The ghost that records a backend call made with the sentinel digest.
Called(d) == sentinel' = (sentinel \/ d = TOMBSTONE_DIGEST)

\* ------------------------------------------------------------------- put
\* put_file_from_fobj, up to the first read: the temporary file in temp_dir
\* and a fresh digester.  NamedTemporaryFile raises when temp_dir is not
\* there.
PutBegin(t, B, desc) ==
  /\ Idle(t)
  /\ LET c == fc[t]
         i == FreshId(scratch[c])
         r == Started(t, "put", <<>>, B, desc)
     IN  IF ~tempdir[c]
         THEN /\ task' = [task EXCEPT ![t] =
                   Ended(r, "OSError", <<>>, FALSE, "", 0)]
              /\ UNCHANGED scratch
         ELSE /\ scratch' = [scratch EXCEPT ![c] = With(@, i, <<>>)]
              /\ task' = [task EXCEPT ![t] =
                   [r EXCEPT !.pc = "put_copy", !.src = B, !.h = DigesterNew,
                             !.tmp = i]]
  /\ UNCHANGED <<envVars, backendVars, mirror, sentinel, tempdir>>

\* One round of the hash-and-copy loop: d.update(buf), dst.write(buf),
\* gevent.sleep(0), src.read.
PutChunk(t) ==
  /\ CanRun(t)
  /\ task[t].pc = "put_copy"
  /\ task[t].src # <<>>
  /\ LET c == fc[t]
         b == Head(task[t].src)
     IN  /\ scratch' = [scratch EXCEPT ![c] =
              IF task[t].tmp \in DOMAIN @
              THEN [@ EXCEPT ![task[t].tmp] = Append(@, b)] ELSE @]
         /\ task' = [task EXCEPT ![t].h = DigesterUpdate(@, b),
                                 ![t].src = Tail(@),
                                 ![t].ny = FALSE]
  /\ UNCHANGED <<envVars, backendVars, mirror, sentinel, tempdir>>

\* PutInstall that moves an empty file into the mirror.
PutInstallMutant(t) ==
  /\ CanRun(t)
  /\ task[t].pc = "put_copy"
  /\ task[t].src = <<>>
  /\ LET c == fc[t]
         d == DigesterDigest(task[t].h)
     IN  /\ mirror' = [mirror EXCEPT ![c] =
              IF d \in DOMAIN @ THEN @ ELSE With(@, d, <<>>)]
         /\ scratch' = [scratch EXCEPT ![c] = Without(@, task[t].tmp)]
         /\ task' = [task EXCEPT ![t] =
              [@ EXCEPT !.pc = "save_create", !.arg = d, !.tmp = 0,
                        !.ny = (kind # "DB")]]
  /\ UNCHANGED <<envVars, backendVars, sentinel, tempdir>>

\* PutInstall that renames without looking whether the mirror holds the
\* digest.
PutInstallAlways(t) ==
  /\ CanRun(t)
  /\ task[t].pc = "put_copy"
  /\ task[t].src = <<>>
  /\ LET c == fc[t]
         d == DigesterDigest(task[t].h)
     IN  /\ mirror' = [mirror EXCEPT ![c] =
              IF task[t].tmp \notin DOMAIN scratch[c] THEN @
              ELSE With(@, d, scratch[c][task[t].tmp])]
         /\ scratch' = [scratch EXCEPT ![c] = Without(@, task[t].tmp)]
         /\ task' = [task EXCEPT ![t] =
              IF task[t].tmp \notin DOMAIN scratch[c]
              THEN Ended([@ EXCEPT !.arg = d], "OSError", <<>>, FALSE, "", 0)
              ELSE IF d = TOMBSTONE_DIGEST
              THEN Ended([@ EXCEPT !.arg = d], "TombstoneError", <<>>, FALSE, "", 0)
              ELSE [@ EXCEPT !.pc = "save_create", !.arg = d, !.tmp = 0,
                             !.over = d \in DOMAIN mirror[c],
                             !.ny = (kind # "DB")]]
  /\ UNCHANGED <<envVars, backendVars, sentinel, tempdir>>

\* PutInstall that returns the digest without calling save when the mirror
\* already holds it.
PutInstallSkipSave(t) ==
  /\ CanRun(t)
  /\ task[t].pc = "put_copy"
  /\ task[t].src = <<>>
  /\ LET c == fc[t]
         d == DigesterDigest(task[t].h)
     IN  /\ mirror' = [mirror EXCEPT ![c] =
              IF d \in DOMAIN @ \/ task[t].tmp \notin DOMAIN scratch[c] THEN @
              ELSE With(@, d, scratch[c][task[t].tmp])]
         /\ scratch' = [scratch EXCEPT ![c] = Without(@, task[t].tmp)]
         /\ task' = [task EXCEPT ![t] =
              IF task[t].tmp \notin DOMAIN scratch[c]
              THEN Ended([@ EXCEPT !.arg = d], "OSError", <<>>, FALSE, "", 0)
              ELSE IF d = TOMBSTONE_DIGEST
              THEN Ended([@ EXCEPT !.arg = d], "TombstoneError", <<>>, FALSE, "", 0)
              ELSE IF d \in DOMAIN mirror[c]
              THEN Ended([@ EXCEPT !.arg = d], "ok", <<>>, FALSE, "", 0)
              ELSE [@ EXCEPT !.pc = "save_create", !.arg = d, !.tmp = 0,
                             !.ny = (kind # "DB")]]
  /\ UNCHANGED <<envVars, backendVars, sentinel, tempdir>>

\* The end of the loop: the digest, the rename into the mirror (or the
\* unlink of the temporary file when the mirror holds the digest), then the
\* call of save with its sentinel test.
PutInstall(t) ==
  /\ CanRun(t)
  /\ task[t].pc = "put_copy"
  /\ task[t].src = <<>>
  /\ LET c == fc[t]
         d == DigesterDigest(task[t].h)
     IN  /\ mirror' = [mirror EXCEPT ![c] =
              IF d \in DOMAIN @ \/ task[t].tmp \notin DOMAIN scratch[c] THEN @
              ELSE With(@, d, scratch[c][task[t].tmp])]
         /\ scratch' = [scratch EXCEPT ![c] = Without(@, task[t].tmp)]
         /\ task' = [task EXCEPT ![t] =
              IF task[t].tmp \notin DOMAIN scratch[c]
              THEN Ended([@ EXCEPT !.arg = d], "OSError", <<>>, FALSE, "", 0)
              ELSE IF d = TOMBSTONE_DIGEST
              THEN Ended([@ EXCEPT !.arg = d], "TombstoneError", <<>>, FALSE, "", 0)
              ELSE [@ EXCEPT !.pc = "save_create", !.arg = d, !.tmp = 0,
                             !.ny = (kind # "DB")]]
  /\ UNCHANGED <<envVars, backendVars, sentinel, tempdir>>

\* ------------------------------------------------------------------ save
\* SaveBegin without the sentinel test.
SaveBeginMutant(t, d, desc) ==
  /\ Idle(t)
  /\ task' = [task EXCEPT ![t] =
       [Started(t, "save", d, <<>>, desc) EXCEPT
          !.pc = "save_create", !.ny = (kind # "DB")]]
  /\ UNCHANGED <<envVars, backendVars, localVars, sentinel>>

\* save(digest, desc) as a public operation, up to the sentinel test.
SaveBegin(t, d, desc) ==
  /\ Idle(t)
  /\ task' = [task EXCEPT ![t] =
       IF d = TOMBSTONE_DIGEST
       THEN Ended(Started(t, "save", d, <<>>, desc),
                  "TombstoneError", <<>>, FALSE, "", 0)
       ELSE [Started(t, "save", d, <<>>, desc) EXCEPT
               !.pc = "save_create", !.ny = (kind # "DB")]]
  /\ UNCHANGED <<envVars, backendVars, localVars, sentinel>>

\* The other tasks that hold a staging handle for digest d and have not
\* committed it.  The ghost field raced of a task says that it and another
\* task held uncommitted handles for one digest at the same time.
Holders(t, d) ==
  {u \in Tasks \ {t} : task[u].hnd # 0 /\ task[u].arg = d}

\* SaveCreate on a relational backend that inserts the catalog row when it
\* allocates the large object.
SaveCreateMutant(t) ==
  /\ CanRun(t)
  /\ task[t].pc = "save_create"
  /\ Called(task[t].arg)
  /\ LET none == BCreateNone(kind, store, staged, task[t].arg)
         r == [task[t] EXCEPT !.calls = @ + 1,
                              !.had = BExists(kind, store, staged, task[t].arg),
                              !.got = IF none THEN "None" ELSE "handle"]
     IN  IF none
         THEN /\ task' = [task EXCEPT ![t] = Ended(r, "ok", <<>>, FALSE, "", 0)]
              /\ UNCHANGED <<store, staged>>
         ELSE /\ staged' = BCreateStaged(staged, r.arg)
              /\ store' = IF kind = "DB"
                          THEN With(store, r.arg, [data |-> <<>>, desc |-> r.desc])
                          ELSE store
              /\ task' = [u \in Tasks |->
                   IF u = t
                   THEN [r EXCEPT !.pc = "save_open", !.hnd = FreshId(staged),
                                  !.ny = (kind # "DB"),
                                  !.raced = (Holders(t, r.arg) # {})]
                   ELSE IF u \in Holders(t, r.arg)
                   THEN [task[u] EXCEPT !.raced = TRUE]
                   ELSE task[u]]
  /\ UNCHANGED <<envVars, localVars>>

\* SaveCreate on a relational backend that gives the row of a catalogued
\* digest the description of the new save.
SaveCreateRedescribes(t) ==
  /\ CanRun(t)
  /\ task[t].pc = "save_create"
  /\ Called(task[t].arg)
  /\ LET none == BCreateNone(kind, store, staged, task[t].arg)
         r == [task[t] EXCEPT !.calls = @ + 1,
                              !.had = BExists(kind, store, staged, task[t].arg),
                              !.got = IF none THEN "None" ELSE "handle"]
     IN  IF none
         THEN /\ task' = [task EXCEPT ![t] = Ended(r, "ok", <<>>, FALSE, "", 0)]
              /\ store' = IF kind = "DB" /\ r.arg \in DOMAIN store
                          THEN [store EXCEPT ![r.arg].desc = r.desc]
                          ELSE store
              /\ UNCHANGED staged
         ELSE /\ staged' = BCreateStaged(staged, r.arg)
              /\ task' = [u \in Tasks |->
                   IF u = t
                   THEN [r EXCEPT !.pc = "save_open", !.hnd = FreshId(staged),
                                  !.ny = (kind # "DB"),
                                  !.raced = (Holders(t, r.arg) # {})]
                   ELSE IF u \in Holders(t, r.arg)
                   THEN [task[u] EXCEPT !.raced = TRUE]
                   ELSE task[u]]
              /\ UNCHANGED store
  /\ UNCHANGED <<envVars, localVars>>

\* fobj = self.backend.create_file(digest); None ends save.
SaveCreate(t) ==
  /\ CanRun(t)
  /\ task[t].pc = "save_create"
  /\ Called(task[t].arg)
  /\ LET none == BCreateNone(kind, store, staged, task[t].arg)
         r == [task[t] EXCEPT !.calls = @ + 1,
                              !.had = BExists(kind, store, staged, task[t].arg),
                              !.got = IF none THEN "None" ELSE "handle"]
     IN  IF none
         THEN /\ task' = [task EXCEPT ![t] = Ended(r, "ok", <<>>, FALSE, "", 0)]
              /\ UNCHANGED staged
         ELSE /\ staged' = BCreateStaged(staged, r.arg)
              /\ task' = [u \in Tasks |->
                   IF u = t
                   THEN [r EXCEPT !.pc = "save_open", !.hnd = FreshId(staged),
                                  !.ny = (kind # "DB"),
                                  !.raced = (Holders(t, r.arg) # {})]
                   ELSE IF u \in Holders(t, r.arg)
                   THEN [task[u] EXCEPT !.raced = TRUE]
                   ELSE task[u]]
  /\ UNCHANGED <<envVars, store, localVars>>

\* io.open(cache_file_path, 'rb') and the first read of copyfileobj.  The
\* open file is a snapshot: mirror entries are never modified in place.
SaveOpen(t) ==
  /\ CanRun(t)
  /\ task[t].pc = "save_open"
  /\ LET c == fc[t]
         r == task[t]
     IN  task' = [task EXCEPT ![t] =
           IF r.arg \notin DOMAIN mirror[c]
           THEN Ended(r, "IOError", <<>>, FALSE, "", 0)
           ELSE IF mirror[c][r.arg] = <<>>
           THEN [r EXCEPT !.pc = "commit", !.src = <<>>, !.ny = (kind # "DB")]
           ELSE [r EXCEPT !.pc = "save_copy", !.src = mirror[c][r.arg],
                          !.ny = FALSE]]
  /\ UNCHANGED <<envVars, backendVars, localVars, sentinel>>

\* SaveCopy whose write also lands in the committed blob of the digest, as
\* if the handle were open on the final path.
SaveCopyMutant(t) ==
  /\ CanRun(t)
  /\ task[t].pc = "save_copy"
  /\ staged' = BWrite(staged, task[t].hnd, Head(task[t].src))
  /\ store' = IF BKey(kind, task[t].arg) \in DOMAIN store
              THEN [store EXCEPT ![BKey(kind, task[t].arg)].data =
                      Append(@, Head(task[t].src))]
              ELSE store
  /\ task' = [task EXCEPT ![t].src = Tail(@),
                          ![t].pc = IF Tail(task[t].src) = <<>>
                                    THEN "commit" ELSE "save_copy",
                          ![t].ny = FALSE]
  /\ UNCHANGED <<envVars, localVars, sentinel>>

\* One round of copyfileobj into the staging handle: sleep, write, sleep,
\* read.
SaveCopy(t) ==
  /\ CanRun(t)
  /\ task[t].pc = "save_copy"
  /\ staged' = BWrite(staged, task[t].hnd, Head(task[t].src))
  /\ task' = [task EXCEPT ![t].src = Tail(@),
                          ![t].pc = IF Tail(task[t].src) = <<>>
                                    THEN "commit" ELSE "save_copy",
                          ![t].ny = FALSE]
  /\ UNCHANGED <<envVars, store, localVars, sentinel>>

\* CommitCheck with the relational backend letting the uniqueness
\* violation escape instead of catching it.
CommitCheckMutant(t) ==
  /\ CanRun(t)
  /\ task[t].pc = "commit"
  /\ Called(task[t].arg)
  /\ LET r == [task[t] EXCEPT !.calls = @ + 1]
         sees == BCommitSees(kind, store, staged, r.arg)
     IN  IF kind = "DB" /\ ~sees
         THEN /\ store' = BCommitStore(kind, store, staged, r.hnd, r.arg, r.desc)
              /\ staged' = Without(staged, r.hnd)
              /\ task' = [task EXCEPT ![t] = CommitEnds(r, TRUE)]
         ELSE IF kind = "DB"
         THEN /\ task' = [task EXCEPT ![t] =
                   Ended(r, "IntegrityError", <<>>, FALSE, "", 0)]
              /\ UNCHANGED <<store, staged>>
         ELSE /\ task' = [task EXCEPT ![t] =
                   [r EXCEPT !.pc = "commit2", !.saw = sees,
                             !.ny = (kind = "FS")]]
              /\ UNCHANGED <<store, staged>>
  /\ UNCHANGED <<envVars, localVars>>

\* CommitCheck with a relational backend that returns False on the
\* uniqueness violation without unlinking its large object.
CommitCheckNoUnlink(t) ==
  /\ CanRun(t)
  /\ task[t].pc = "commit"
  /\ Called(task[t].arg)
  /\ LET r == [task[t] EXCEPT !.calls = @ + 1]
         sees == BCommitSees(kind, store, staged, r.arg)
     IN  CASE kind = "FS" ->
                /\ task' = [task EXCEPT ![t] =
                     [r EXCEPT !.pc = "commit2", !.saw = sees, !.ny = TRUE]]
                /\ UNCHANGED <<store, staged>>
           [] kind = "S3" ->
                IF sees
                THEN /\ staged' = Without(staged, r.hnd)
                     /\ task' = [task EXCEPT ![t] =
                          CommitEnds(r, FALSE)]
                     /\ UNCHANGED store
                ELSE /\ task' = [task EXCEPT ![t] =
                          [r EXCEPT !.pc = "commit2", !.saw = FALSE,
                                    !.ny = FALSE]]
                     /\ UNCHANGED <<store, staged>>
           [] kind = "DB" ->
                IF sees
                THEN /\ task' = [task EXCEPT ![t] =
                          CommitEnds(r, FALSE)]
                     /\ UNCHANGED <<store, staged>>
                ELSE /\ store' = BCommitStore(kind, store, staged, r.hnd,
                                              r.arg, r.desc)
                     /\ staged' = Without(staged, r.hnd)
                     /\ task' = [task EXCEPT ![t] =
                          CommitEnds(r, TRUE)]
           [] OTHER ->
                /\ task' = [task EXCEPT ![t] = CommitEnds(r, FALSE)]
                /\ UNCHANGED <<store, staged>>
  /\ UNCHANGED <<envVars, localVars>>

\* commit_file, first half.  FSBackend: close and os.path.exists.
\* S3Backend: head_object, and on success the unlink of the temporary file.
\* DBBackend: the whole insert transaction, with the IntegrityError branch.
\* NullBackend: return False.
CommitCheck(t) ==
  /\ CanRun(t)
  /\ task[t].pc = "commit"
  /\ Called(task[t].arg)
  /\ LET r == [task[t] EXCEPT !.calls = @ + 1]
         sees == BCommitSees(kind, store, staged, r.arg)
     IN  CASE kind = "FS" ->
                /\ task' = [task EXCEPT ![t] =
                     [r EXCEPT !.pc = "commit2", !.saw = sees, !.ny = TRUE]]
                /\ UNCHANGED <<store, staged>>
           [] kind = "S3" ->
                IF sees
                THEN /\ staged' = Without(staged, r.hnd)
                     /\ task' = [task EXCEPT ![t] =
                          CommitEnds(r, FALSE)]
                     /\ UNCHANGED store
                ELSE /\ task' = [task EXCEPT ![t] =
                          [r EXCEPT !.pc = "commit2", !.saw = FALSE,
                                    !.ny = FALSE]]
                     /\ UNCHANGED <<store, staged>>
           [] kind = "DB" ->
                IF sees
                THEN /\ staged' = Without(staged, r.hnd)
                     /\ task' = [task EXCEPT ![t] =
                          CommitEnds(r, FALSE)]
                     /\ UNCHANGED store
                ELSE /\ store' = BCommitStore(kind, store, staged, r.hnd,
                                              r.arg, r.desc)
                     /\ staged' = Without(staged, r.hnd)
                     /\ task' = [task EXCEPT ![t] =
                          CommitEnds(r, TRUE)]
           [] OTHER ->
                /\ task' = [task EXCEPT ![t] = CommitEnds(r, FALSE)]
                /\ UNCHANGED <<store, staged>>
  /\ UNCHANGED <<envVars, localVars>>

\* CommitAct with a rename that fails when the digest was put in place
\* between the test and the rename.
CommitActMutant(t) ==
  /\ CanRun(t)
  /\ task[t].pc = "commit2"
  /\ LET r == task[t]
     IN  IF r.hnd \notin DOMAIN staged \/ (~r.saw /\ BKey(kind, r.arg) \in DOMAIN store)
         THEN /\ task' = [task EXCEPT ![t] =
                   Ended(r, "OSError", <<>>, FALSE, "", 0)]
              /\ UNCHANGED <<store, staged>>
         ELSE IF r.saw
         THEN /\ staged' = Without(staged, r.hnd)
              /\ task' = [task EXCEPT ![t] = CommitEnds(r, FALSE)]
              /\ UNCHANGED store
         ELSE /\ store' = BCommitStore(kind, store, staged, r.hnd, r.arg, r.desc)
              /\ staged' = Without(staged, r.hnd)
              /\ task' = [task EXCEPT ![t] = CommitEnds(r, TRUE)]
  /\ UNCHANGED <<envVars, localVars, sentinel>>

\* CommitAct that returns False for a digest that was seen without
\* unlinking the staging file.
CommitActKeepsTemp(t) ==
  /\ CanRun(t)
  /\ task[t].pc = "commit2"
  /\ LET r == task[t]
     IN  IF r.hnd \notin DOMAIN staged
         THEN /\ task' = [task EXCEPT ![t] =
                   Ended(r, "OSError", <<>>, FALSE, "", 0)]
              /\ UNCHANGED <<store, staged>>
         ELSE IF r.saw
         THEN /\ task' = [task EXCEPT ![t] = CommitEnds(r, FALSE)]
              /\ UNCHANGED <<store, staged>>
         ELSE /\ store' = BCommitStore(kind, store, staged, r.hnd, r.arg, r.desc)
              /\ staged' = Without(staged, r.hnd)
              /\ task' = [task EXCEPT ![t] = CommitEnds(r, TRUE)]
  /\ UNCHANGED <<envVars, localVars, sentinel>>

\* commit_file, second half.  FSBackend: os.rename of the staging file onto
\* the digest (which replaces a file put there meanwhile), or os.unlink of
\* the staging file when the digest was seen.  S3Backend: upload_fileobj,
\* close, unlink.
CommitAct(t) ==
  /\ CanRun(t)
  /\ task[t].pc = "commit2"
  /\ LET r == task[t]
     IN  IF r.hnd \notin DOMAIN staged
         THEN /\ task' = [task EXCEPT ![t] =
                   Ended(r, "OSError", <<>>, FALSE, "", 0)]
              /\ UNCHANGED <<store, staged>>
         ELSE IF r.saw
         THEN /\ staged' = Without(staged, r.hnd)
              /\ task' = [task EXCEPT ![t] = CommitEnds(r, FALSE)]
              /\ UNCHANGED store
         ELSE /\ store' = BCommitStore(kind, store, staged, r.hnd, r.arg, r.desc)
              /\ staged' = Without(staged, r.hnd)
              /\ task' = [task EXCEPT ![t] = CommitEnds(r, TRUE)]
  /\ UNCHANGED <<envVars, localVars, sentinel>>

\* S3Backend.commit_file when the object storage answers with an error that
\* is not the 404 of an absent object: head_object raises a ClientError,
\* the handler closes the handle and raises it again; or upload_fileobj
\* raises, and the exception leaves commit_file at once.  Neither path
\* unlinks the temporary file.
CommitFails(t) ==
  /\ CanRun(t)
  /\ kind = "S3"
  /\ task[t].pc \in {"commit", "commit2"}
  /\ Called(task[t].arg)
  /\ task' = [task EXCEPT ![t] =
       Ended([task[t] EXCEPT !.calls = IF task[t].pc = "commit" THEN @ + 1 ELSE @],
             "ClientError", <<>>, FALSE, "", 0)]
  /\ UNCHANGED <<envVars, backendVars, localVars>>

\* NullBackend.commit_file called by a direct user of the backend (save
\* never gets that far: its create_file returns None); the handle may be
\* any object, the backend does not look at it.
NullCommit(t, d, desc) ==
  /\ Idle(t)
  /\ kind = "Null"
  /\ d # TOMBSTONE_DIGEST
  /\ task' = [task EXCEPT ![t] =
       CommitEnds([Started(t, "commit", d, <<>>, desc) EXCEPT !.calls = 1],
                  FALSE)]
  /\ UNCHANGED <<envVars, backendVars, localVars, sentinel>>

\* ----------------------------------------------------------- load and get
\* LoadBegin without the sentinel test.
LoadBeginMutant(t, d, ifn) ==
  /\ Idle(t)
  /\ LET r == [Started(t, "load", d, <<>>, "") EXCEPT !.ifn = ifn]
     IN  task' = [task EXCEPT ![t] =
           IF ifn /\ d \in DOMAIN mirror[fc[t]]
           THEN Ended(r, "ok", <<>>, FALSE, "", 0)
           ELSE [r EXCEPT !.pc = "load_fetch"]]
  /\ UNCHANGED <<envVars, backendVars, localVars, sentinel>>

\* LoadBegin that goes to the backend whatever if_needed says.
LoadBeginAlways(t, d, ifn) ==
  /\ Idle(t)
  /\ LET r == [Started(t, "load", d, <<>>, "") EXCEPT !.ifn = ifn]
     IN  task' = [task EXCEPT ![t] =
           IF d = TOMBSTONE_DIGEST
           THEN Ended(r, "TombstoneError", <<>>, FALSE, "", 0)
           ELSE [r EXCEPT !.pc = "load_fetch"]]
  /\ UNCHANGED <<envVars, backendVars, localVars, sentinel>>

\* load(digest, if_needed), up to the call of the backend.
LoadBegin(t, d, ifn) ==
  /\ Idle(t)
  /\ LET r == [Started(t, "load", d, <<>>, "") EXCEPT !.ifn = ifn]
     IN  task' = [task EXCEPT ![t] =
           IF d = TOMBSTONE_DIGEST
           THEN Ended(r, "TombstoneError", <<>>, FALSE, "", 0)
           ELSE IF ifn /\ d \in DOMAIN mirror[fc[t]]
           THEN Ended(r, "ok", <<>>, FALSE, "", 0)
           ELSE [r EXCEPT !.pc = "load_fetch"]]
  /\ UNCHANGED <<envVars, backendVars, localVars, sentinel>>

\* GetBegin that calls load without looking into the mirror.
GetBeginAlways(t, d, form) ==
  /\ Idle(t)
  /\ form \in GetForms
  /\ LET r == Started(t, form, d, <<>>, "")
     IN  task' = [task EXCEPT ![t] =
           IF d = TOMBSTONE_DIGEST
           THEN Ended(r, "TombstoneError", <<>>, FALSE, "", 0)
           ELSE [r EXCEPT !.pc = "load_fetch"]]
  /\ UNCHANGED <<envVars, backendVars, localVars, sentinel>>

\* get_file and the three forms built on it (get_file_content,
\* get_file_to_fobj, get_file_to_path), each with its own sentinel test: a
\* hit in the mirror is opened and read at once, a miss calls load(digest).
GetBegin(t, d, form) ==
  /\ Idle(t)
  /\ form \in GetForms
  /\ LET r == Started(t, form, d, <<>>, "")
     IN  task' = [task EXCEPT ![t] =
           IF d = TOMBSTONE_DIGEST
           THEN Ended(r, "TombstoneError", <<>>, FALSE, "", 0)
           ELSE IF d \in DOMAIN mirror[fc[t]]
           THEN Ended(r, "ok", mirror[fc[t]][d], FALSE, "", 0)
           ELSE [r EXCEPT !.pc = "load_fetch"]]
  /\ UNCHANGED <<envVars, backendVars, localVars, sentinel>>

\* LoadFetch that opens the file it downloads into under the digest, in
\* the mirror directory, instead of under a temporary name.
LoadFetchMutant(t) ==
  /\ CanRun(t)
  /\ task[t].pc = "load_fetch"
  /\ Called(task[t].arg)
  /\ LET c == fc[t]
         i == FreshId(scratch[c])
         r == [task[t] EXCEPT !.calls = @ + 1]
         g == BGetFile(kind, store, staged, r.arg)
     IN  /\ scratch' = [scratch EXCEPT ![c] = With(@, i, <<>>)]
         /\ mirror' = [mirror EXCEPT ![c] =
              IF g.ok THEN With(@, r.arg, <<>>) ELSE @]
         /\ task' = [task EXCEPT ![t] =
              IF ~g.ok THEN Ended(r, "KeyError", <<>>, FALSE, "", 0)
              ELSE IF g.data = <<>>
              THEN [r EXCEPT !.pc = "load_install", !.tmp = i, !.src = <<>>,
                             !.ny = TRUE]
              ELSE [r EXCEPT !.pc = "load_copy", !.tmp = i, !.src = g.data,
                             !.ny = FALSE]]
  /\ UNCHANGED <<envVars, backendVars, tempdir>>

\* tempfile.mkstemp(dir=temp_dir), backend.get_file(digest) and the first
\* read of copyfileobj.  mkstemp raises when temp_dir is not there, before
\* the backend is called.  A KeyError leaves the temporary file behind.
LoadFetch(t) ==
  /\ CanRun(t)
  /\ task[t].pc = "load_fetch"
  /\ LET c == fc[t]
         i == FreshId(scratch[c])
         r == [task[t] EXCEPT !.calls = @ + 1]
         g == BGetFile(kind, store, staged, r.arg)
     IN  IF ~tempdir[c]
         THEN /\ task' = [task EXCEPT ![t] =
                   Ended(task[t], "OSError", <<>>, FALSE, "", 0)]
              /\ UNCHANGED <<scratch, sentinel>>
         ELSE /\ Called(task[t].arg)
              /\ scratch' = [scratch EXCEPT ![c] = With(@, i, <<>>)]
              /\ task' = [task EXCEPT ![t] =
                   IF ~g.ok THEN Ended(r, "KeyError", <<>>, FALSE, "", 0)
                   ELSE IF g.data = <<>>
                   THEN [r EXCEPT !.pc = "load_install", !.tmp = i,
                                  !.src = <<>>, !.ny = TRUE]
                   ELSE [r EXCEPT !.pc = "load_copy", !.tmp = i,
                                  !.src = g.data, !.ny = FALSE]]
  /\ UNCHANGED <<envVars, backendVars, mirror, tempdir>>

\* One round of copyfileobj into the temporary file.
LoadCopy(t) ==
  /\ CanRun(t)
  /\ task[t].pc = "load_copy"
  /\ LET c == fc[t]
     IN  scratch' = [scratch EXCEPT ![c] =
           IF task[t].tmp \in DOMAIN @
           THEN [@ EXCEPT ![task[t].tmp] = Append(@, Head(task[t].src))] ELSE @]
  /\ task' = [task EXCEPT ![t].src = Tail(@),
                          ![t].pc = IF Tail(task[t].src) = <<>>
                                    THEN "load_install" ELSE "load_copy",
                          ![t].ny = FALSE]
  /\ UNCHANGED <<envVars, backendVars, mirror, sentinel, tempdir>>

\* LoadInstall with a rename that fails when the mirror already has the
\* entry.
LoadInstallNoReplace(t) ==
  /\ CanRun(t)
  /\ task[t].pc = "load_install"
  /\ LET c == fc[t]
         r == task[t]
     IN  IF r.tmp \notin DOMAIN scratch[c] \/ r.arg \in DOMAIN mirror[c]
         THEN /\ task' = [task EXCEPT ![t] =
                   Ended(r, "OSError", <<>>, FALSE, "", 0)]
              /\ UNCHANGED <<mirror, scratch>>
         ELSE /\ mirror' = [mirror EXCEPT ![c] = With(@, r.arg, scratch[c][r.tmp])]
              /\ scratch' = [scratch EXCEPT ![c] = Without(@, r.tmp)]
              /\ task' = [task EXCEPT ![t] =
                   Ended(r, "ok",
                         IF r.op = "load" THEN <<>> ELSE scratch[c][r.tmp],
                         FALSE, "", 0)]
  /\ UNCHANGED <<envVars, backendVars, sentinel, tempdir>>

\* os.rename(temp_file_path, cache_file_path), which replaces an entry that
\* is there; a get form then opens and reads the entry.
LoadInstall(t) ==
  /\ CanRun(t)
  /\ task[t].pc = "load_install"
  /\ LET c == fc[t]
         r == task[t]
     IN  IF r.tmp \notin DOMAIN scratch[c]
         THEN /\ task' = [task EXCEPT ![t] =
                   Ended(r, "OSError", <<>>, FALSE, "", 0)]
              /\ UNCHANGED <<mirror, scratch>>
         ELSE /\ mirror' = [mirror EXCEPT ![c] = With(@, r.arg, scratch[c][r.tmp])]
              /\ scratch' = [scratch EXCEPT ![c] = Without(@, r.tmp)]
              /\ task' = [task EXCEPT ![t] =
                   Ended([r EXCEPT !.over = r.arg \in DOMAIN mirror[c]], "ok",
                         IF r.op = "load" THEN <<>> ELSE scratch[c][r.tmp],
                         FALSE, "", 0)]
  /\ UNCHANGED <<envVars, backendVars, sentinel, tempdir>>

\* ------------------------------------------------- describe and get_size
\* Describe on a backend that answers without looking for the digest.
DescribeNoCheck(t, d) ==
  /\ Idle(t)
  /\ LET r == Started(t, "describe", d, <<>>, "")
     IN  IF d = TOMBSTONE_DIGEST
         THEN /\ task' = [task EXCEPT ![t] =
                   Ended(r, "TombstoneError", <<>>, FALSE, "", 0)]
              /\ UNCHANGED sentinel
         ELSE /\ Called(d)
              /\ task' = [task EXCEPT ![t] =
                   Ended([r EXCEPT !.calls = 1], "ok", <<>>, FALSE, "", 0)]
  /\ UNCHANGED <<envVars, backendVars, localVars>>

\* describe(digest): the sentinel test, then backend.describe.
Describe(t, d) ==
  /\ Idle(t)
  /\ LET r == Started(t, "describe", d, <<>>, "")
         b == BDescribe(kind, store, staged, d)
     IN  IF d = TOMBSTONE_DIGEST
         THEN /\ task' = [task EXCEPT ![t] =
                   Ended(r, "TombstoneError", <<>>, FALSE, "", 0)]
              /\ UNCHANGED sentinel
         ELSE /\ Called(d)
              /\ task' = [task EXCEPT ![t] =
                   Ended([r EXCEPT !.calls = 1],
                         IF b.ok THEN "ok" ELSE "KeyError",
                         <<>>, FALSE, b.desc, 0)]
  /\ UNCHANGED <<envVars, backendVars, localVars>>

GetSize(t, d) ==
  /\ Idle(t)
  /\ LET r == Started(t, "get_size", d, <<>>, "")
         b == BGetSize(kind, store, staged, d)
     IN  IF d = TOMBSTONE_DIGEST
         THEN /\ task' = [task EXCEPT ![t] =
                   Ended(r, "TombstoneError", <<>>, FALSE, "", 0)]
              /\ UNCHANGED sentinel
         ELSE /\ Called(d)
              /\ task' = [task EXCEPT ![t] =
                   Ended([r EXCEPT !.calls = 1],
                         IF b.ok THEN "ok" ELSE "KeyError",
                         <<>>, FALSE, "", b.size)]
  /\ UNCHANGED <<envVars, backendVars, localVars>>

\* -------------------------------------------------------- delete and drop
\* Delete without the sentinel test.
DeleteNoGuard(t, d) ==
  /\ Idle(t)
  /\ LET r == Started(t, "delete", d, <<>>, "")
     IN  /\ Called(d)
         /\ mirror' = [mirror EXCEPT ![fc[t]] = Without(@, d)]
         /\ store' = BDeleteStore(kind, store, d)
         /\ staged' = BDeleteStaged(kind, store, staged, d)
         /\ task' = [task EXCEPT ![t] =
              Ended([r EXCEPT !.calls = 1], "ok", <<>>, FALSE, "", 0)]
  /\ UNCHANGED <<envVars, scratch, tempdir>>

\* Delete that forgets the backend.
DeleteLocalOnly(t, d) ==
  /\ Idle(t)
  /\ LET r == Started(t, "delete", d, <<>>, "")
     IN  /\ mirror' = [mirror EXCEPT ![fc[t]] =
              IF d = TOMBSTONE_DIGEST THEN @ ELSE Without(@, d)]
         /\ task' = [task EXCEPT ![t] = Ended(r, "ok", <<>>, FALSE, "", 0)]
  /\ UNCHANGED <<envVars, backendVars, scratch, sentinel, tempdir>>

\* delete(digest): nothing for the sentinel, else drop and backend.delete.
Delete(t, d) ==
  /\ Idle(t)
  /\ LET r == Started(t, "delete", d, <<>>, "")
     IN  IF d = TOMBSTONE_DIGEST
         THEN /\ task' = [task EXCEPT ![t] = Ended(r, "ok", <<>>, FALSE, "", 0)]
              /\ UNCHANGED <<mirror, store, staged, sentinel>>
         ELSE /\ Called(d)
              /\ mirror' = [mirror EXCEPT ![fc[t]] = Without(@, d)]
              /\ store' = BDeleteStore(kind, store, d)
              /\ staged' = BDeleteStaged(kind, store, staged, d)
              /\ task' = [task EXCEPT ![t] =
                   Ended([r EXCEPT !.calls = 1], "ok", <<>>, FALSE, "", 0)]
  /\ UNCHANGED <<envVars, scratch, tempdir>>

\* Drop that removes the backend copy too.
DropAlsoBackend(t, d) ==
  /\ Idle(t)
  /\ LET r == [Started(t, "drop", d, <<>>, "") EXCEPT
                 !.snap = BEntries(kind, store, staged)]
     IN  /\ mirror' = [mirror EXCEPT ![fc[t]] =
              IF d = TOMBSTONE_DIGEST THEN @ ELSE Without(@, d)]
         /\ store' = IF d = TOMBSTONE_DIGEST THEN store
                     ELSE BDeleteStore(kind, store, d)
         /\ task' = [task EXCEPT ![t] = Ended(r, "ok", <<>>, FALSE, "", 0)]
  /\ UNCHANGED <<envVars, staged, scratch, sentinel, tempdir>>

\* drop(digest): nothing for the sentinel, else os.unlink of the mirror
\* entry, its absence ignored.
Drop(t, d) ==
  /\ Idle(t)
  /\ LET r == [Started(t, "drop", d, <<>>, "") EXCEPT
                 !.snap = BEntries(kind, store, staged)]
     IN  /\ mirror' = [mirror EXCEPT ![fc[t]] =
              IF d = TOMBSTONE_DIGEST THEN @ ELSE Without(@, d)]
         /\ task' = [task EXCEPT ![t] = Ended(r, "ok", <<>>, FALSE, "", 0)]
  /\ UNCHANGED <<envVars, backendVars, scratch, sentinel, tempdir>>

\* ------------------------------------------------ check_backend_integrity
\* for digest, _ in self.list(): the call of list.
CheckBegin(t, del) ==
  /\ Idle(t)
  /\ LET r == [Started(t, "check", <<>>, <<>>, "") EXCEPT
                 !.del = del, !.calls = 1,
                 !.snap = BEntries(kind, store, staged)]
     IN  task' = [task EXCEPT ![t] =
           IF BListRaises(kind)
           THEN Ended(r, "TypeError", <<>>, FALSE, "", 0)
           ELSE [r EXCEPT !.pc = "check", !.clean = TRUE,
                          !.todo = {e[1] : e \in BList(kind, store, staged)},
                          !.ny = (kind \in {"FS", "Null"})]]
  /\ UNCHANGED <<envVars, backendVars, localVars, sentinel>>

\* CheckOne that deletes every blob it examines when delete is set.
CheckOneDeleteAll(t) ==
  /\ CanRun(t)
  /\ task[t].pc = "check"
  /\ task[t].todo # {}
  /\ LET r == [task[t] EXCEPT !.calls = @ + 1]
         d == CHOOSE x \in r.todo : TRUE
         g == BGetFile(kind, store, staged, d)
         bad == g.ok /\ d # Digest(g.data)
         rm == g.ok /\ r.del /\ d # TOMBSTONE_DIGEST
     IN  /\ Called(d)
         /\ task' = [task EXCEPT ![t] =
              IF ~g.ok THEN Ended(r, "KeyError", <<>>, FALSE, "", 0)
              ELSE [r EXCEPT !.todo = @ \ {d},
                             !.clean = IF bad THEN FALSE ELSE @,
                             !.calls = IF rm THEN @ + 1 ELSE @]]
         /\ mirror' = [mirror EXCEPT ![fc[t]] = IF rm THEN Without(@, d) ELSE @]
         /\ store' = IF rm THEN BDeleteStore(kind, store, d) ELSE store
         /\ staged' = IF rm THEN BDeleteStaged(kind, store, staged, d) ELSE staged
  /\ UNCHANGED <<envVars, scratch, tempdir>>

\* One round of the loop: backend.get_file(digest), the re-hash of what it
\* returns, the comparison, and self.delete(digest) on a mismatch when
\* delete is set.
CheckOne(t) ==
  /\ CanRun(t)
  /\ task[t].pc = "check"
  /\ task[t].todo # {}
  /\ LET r == [task[t] EXCEPT !.calls = @ + 1]
         d == CHOOSE x \in r.todo : TRUE
         g == BGetFile(kind, store, staged, d)
         bad == g.ok /\ d # Digest(g.data)
         rm == bad /\ r.del /\ d # TOMBSTONE_DIGEST
     IN  /\ Called(d)
         /\ task' = [task EXCEPT ![t] =
              IF ~g.ok THEN Ended(r, "KeyError", <<>>, FALSE, "", 0)
              ELSE [r EXCEPT !.todo = @ \ {d},
                             !.clean = IF bad THEN FALSE ELSE @,
                             !.calls = IF rm THEN @ + 1 ELSE @]]
         /\ mirror' = [mirror EXCEPT ![fc[t]] = IF rm THEN Without(@, d) ELSE @]
         /\ store' = IF rm THEN BDeleteStore(kind, store, d) ELSE store
         /\ staged' = IF rm THEN BDeleteStaged(kind, store, staged, d) ELSE staged
  /\ UNCHANGED <<envVars, scratch, tempdir>>

\* return clean
CheckEnd(t) ==
  /\ CanRun(t)
  /\ task[t].pc = "check"
  /\ task[t].todo = {}
  /\ task' = [task EXCEPT ![t] = Ended(task[t], "ok", <<>>, task[t].clean, "", 0)]
  /\ UNCHANGED <<envVars, backendVars, localVars, sentinel>>

\* ----------------------------------------------------------------- purge
\* PurgeCache that also empties the backend.
PurgeCacheAll(t) ==
  /\ Idle(t)
  /\ \A u \in Tasks : fc[u] = fc[t] => task[u].pc \in {"idle", "off"}
  /\ mirror' = [mirror EXCEPT ![fc[t]] = NoFiles]
  /\ scratch' = [scratch EXCEPT ![fc[t]] = NoFiles]
  /\ tempdir' = [tempdir EXCEPT ![fc[t]] = FALSE]
  /\ store' = NoFiles
  /\ task' = [task EXCEPT ![t] =
       Ended([Started(t, "purge_cache", <<>>, <<>>, "") EXCEPT
                !.snap = BEntries(kind, store, staged)],
             "ok", <<>>, FALSE, "", 0)]
  /\ UNCHANGED <<envVars, staged, sentinel>>

\* purge_cache on a FileCacher that has no operation under way:
\* destroy_cache removes file_dir with all it contains, the mirror entries
\* and the directory temp_dir with its files; then cache_dir and file_dir
\* are made again, and temp_dir is not.
PurgeCache(t) ==
  /\ Idle(t)
  /\ \A u \in Tasks : fc[u] = fc[t] => task[u].pc \in {"idle", "off"}
  /\ mirror' = [mirror EXCEPT ![fc[t]] = NoFiles]
  /\ scratch' = [scratch EXCEPT ![fc[t]] = NoFiles]
  /\ tempdir' = [tempdir EXCEPT ![fc[t]] = FALSE]
  /\ task' = [task EXCEPT ![t] =
       Ended([Started(t, "purge_cache", <<>>, <<>>, "") EXCEPT
                !.snap = BEntries(kind, store, staged)],
             "ok", <<>>, FALSE, "", 0)]
  /\ UNCHANGED <<envVars, backendVars, sentinel>>

\* ------------------------------------------------------------ copyfileobj
\* buffer = source_fobj.read(buffer_size): at most buffer_size bytes, at
\* least one unless the source is at its end; the empty buffer ends the
\* copy.
CopyRead ==
  /\ cp.pc = "read"
  /\ \E k \in 0..cp.size :
       /\ k <= Len(cp.src)
       /\ k = 0 <=> cp.src = <<>>
       /\ cp' = [cp EXCEPT !.buf = SubSeq(cp.src, 1, k),
                           !.src = SubSeq(cp.src, k + 1, Len(cp.src)),
                           !.pc = IF k = 0 THEN "done" ELSE "write"]
  /\ UNCHANGED <<kind, fc, fixedB, backendVars, localVars, task, sentinel>>

\* CopyWrite that takes the buffer for written whatever write returned.
CopyWriteMutant ==
  /\ cp.pc = "write"
  /\ \E k \in 1..Len(cp.buf) :
       /\ cp.none => k = Len(cp.buf)
       /\ cp' = [cp EXCEPT !.dst = @ \o SubSeq(cp.buf, 1, k),
                           !.buf = <<>>,
                           !.short = @ \/ k < Len(cp.buf),
                           !.pc = "read"]
  /\ UNCHANGED <<kind, fc, fixedB, backendVars, localVars, task, sentinel>>

\* gevent.sleep(0); written = destination_fobj.write(buffer): a
\* destination that returns None has taken the whole buffer (the file
\* objects of Python 2), one that returns a count has taken that many
\* bytes, at least one; then the break on None, or buffer = buffer[written:]
\* and the test of the inner loop.
CopyWrite ==
  /\ cp.pc = "write"
  /\ \E k \in 1..Len(cp.buf) :
       /\ cp.none => k = Len(cp.buf)
       /\ cp' = [cp EXCEPT !.dst = @ \o SubSeq(cp.buf, 1, k),
                           !.buf = IF cp.none THEN <<>>
                                   ELSE SubSeq(cp.buf, k + 1, Len(cp.buf)),
                           !.short = @ \/ k < Len(cp.buf),
                           !.pc = IF cp.none \/ k = Len(cp.buf)
                                  THEN "read" ELSE "write"]
  /\ UNCHANGED <<kind, fc, fixedB, backendVars, localVars, task, sentinel>>

\* ----------------------------------------------------------- environment
\* Corruption of the backend from outside the FileCacher: under the key of
\* digest d the backend now holds bytes whose digest is not d.
Inject(d, data) ==
  /\ kind # "Null"
  /\ d # TOMBSTONE_DIGEST
  /\ Digest(data) # d
  /\ \A t \in Tasks : task[t].pc \in {"idle", "off"}
  /\ store' = With(store, BKey(kind, d), [data |-> data, desc |-> ""])
  /\ UNCHANGED <<envVars, staged, localVars, task, sentinel>>

\* A committed blob is removed from the backend by someone else than the
\* FileCacher, between two operations: the backend is shared, and another
\* process deletes the digest (backend.delete) or removes the file from the
\* directory of an FSBackend.
Remove(d) ==
  /\ kind # "Null"
  /\ BKey(kind, d) \in DOMAIN store
  /\ \A t \in Tasks : task[t].pc \in {"idle", "off"}
  /\ store' = Without(store, BKey(kind, d))
  /\ UNCHANGED <<envVars, staged, localVars, task, sentinel>>

\* A greenlet that is suspended at a yield point is killed: the exception
\* unwinds its operation, the with blocks close the files, and what the
\* operation had created so far (the temporary file in temp_dir, the
\* staging handle of the backend) stays where it is.
Cancel(t) ==
  /\ task[t].pc \notin {"idle", "off"}
  /\ ~task[t].ny
  /\ task' = [task EXCEPT ![t] =
       Ended(task[t], "GreenletExit", <<>>, FALSE, "", 0)]
  /\ UNCHANGED <<envVars, backendVars, localVars, sentinel>>

\* ------------------------------------------------------- specifications
\* What a backend of kind k holds when every blob in it was stored by a
\* completed put of one of the contents in S with the default description.
Stored(k, S) ==
  [key \in {BKey(k, Digest(c)) : c \in S} |->
     [data |-> CHOOSE c \in S : BKey(k, Digest(c)) = key, desc |-> ""]]

InitCommon ==
  /\ kind \in Kinds
  /\ \E S \in SUBSET Contents :
       /\ kind = "Null" => S = {}
       /\ store = Stored(kind, S)
  /\ staged = NoFiles
  /\ mirror = [c \in Cachers |-> NoFiles]
  /\ scratch = [c \in Cachers |-> NoFiles]
  /\ tempdir = [c \in Cachers |-> TRUE]
  /\ cp = NoCopy
  /\ sentinel = FALSE

\* One FileCacher, one caller, operations one after the other.
Init ==
  /\ InitCommon
  /\ fc = [t \in Tasks |-> 1]
  /\ task = [t \in Tasks |->
       IF t = 1
       THEN [IdleTask EXCEPT !.mono = IF store = NoFiles THEN "none" ELSE "mixed"]
       ELSE OffTask]
  /\ fixedB = <<>>

\* The steps inside put and save.
PutSteps(t) ==
  \/ PutChunk(t)
  \/ PutInstall(t)
  \/ SaveCreate(t)
  \/ SaveOpen(t)
  \/ SaveCopy(t)
  \/ CommitCheck(t)
  \/ CommitAct(t)

\* The steps inside load and the get forms.
LoadSteps(t) ==
  \/ LoadFetch(t)
  \/ LoadCopy(t)
  \/ LoadInstall(t)

CheckSteps(t) ==
  \/ CheckOne(t)
  \/ CheckEnd(t)

Next ==
  \E t \in Tasks :
    \/ \E B \in Contents, desc \in Descs : PutBegin(t, B, desc)
    \/ PutSteps(t)
    \/ \E d \in Digests, desc \in Descs : SaveBegin(t, d, desc)
    \/ \E d \in Digests : NullCommit(t, d, "")
    \/ \E d \in Digests, ifn \in BOOLEAN : LoadBegin(t, d, ifn)
    \/ \E d \in Digests, form \in GetForms : GetBegin(t, d, form)
    \/ LoadSteps(t)
    \/ \E d \in Digests : Describe(t, d)
    \/ \E d \in Digests : GetSize(t, d)
    \/ \E d \in Digests : Delete(t, d)
    \/ \E d \in Digests : Drop(t, d)
    \/ \E del \in BOOLEAN : CheckBegin(t, del)
    \/ CheckSteps(t)

Spec == Init /\ [][Next]_vars

\* Callers on one or several FileCachers that share the backend, all
\* putting the same content.
InitRace ==
  /\ InitCommon
  /\ fc \in [Tasks -> Cachers]
  /\ fc[1] = 1
  /\ task = [t \in Tasks |-> IdleTask]
  /\ fixedB \in Contents

NextRace ==
  \E t \in Tasks :
    \/ \E desc \in Descs : PutBegin(t, fixedB, desc)
    \/ PutSteps(t)

SpecRace == InitRace /\ [][NextRace]_vars

\* One caller, puts and integrity checks, and a backend that may be
\* corrupted from outside between operations.
NextInteg ==
  \/ \E d \in Digests, data \in Contents : Inject(d, data)
  \/ \E t \in Tasks :
       \/ \E B \in Contents : PutBegin(t, B, "")
       \/ PutSteps(t)
       \/ \E del \in BOOLEAN : CheckBegin(t, del)
       \/ CheckSteps(t)

SpecInteg == Init /\ [][NextInteg]_vars

\* Greenlets of one process, on one FileCacher, all working on one content
\* of the greatest length and its digest, which the backend holds or does
\* not hold: puts, loads, gets, drops and deletes that interleave at the
\* yield points, and greenlets killed there.  The first greenlet runs up to
\* MaxOps operations, each other one a single operation.
InitMix ==
  /\ kind \in Kinds
  /\ fixedB = [i \in 1..MaxLen |-> 0]
  /\ store \in {NoFiles, Stored(kind, {fixedB})}
  /\ kind = "Null" => store = NoFiles
  /\ staged = NoFiles
  /\ mirror = [c \in Cachers |-> NoFiles]
  /\ scratch = [c \in Cachers |-> NoFiles]
  /\ tempdir = [c \in Cachers |-> TRUE]
  /\ cp = NoCopy
  /\ sentinel = FALSE
  /\ fc = [t \in Tasks |-> 1]
  /\ task = [t \in Tasks |->
       IF t = 1 THEN IdleTask ELSE [IdleTask EXCEPT !.n = MaxOps - 1]]

NextMix ==
  \E t \in Tasks :
    \/ PutBegin(t, fixedB, "")
    \/ PutSteps(t)
    \/ \E ifn \in BOOLEAN : LoadBegin(t, Digest(fixedB), ifn)
    \/ GetBegin(t, Digest(fixedB), "get_file_content")
    \/ LoadSteps(t)
    \/ Drop(t, Digest(fixedB))
    \/ Delete(t, Digest(fixedB))
    \/ Cancel(t)

SpecMix == InitMix /\ [][NextMix]_vars

\* One caller and all the operations, on an object storage that may
\* answer a commit with an error.
NextFail ==
  \/ Next
  \/ \E t \in Tasks : CommitFails(t)

SpecFail == Init /\ [][NextFail]_vars

\* copyfileobj on its own: every source of up to CopyLen bytes, every
\* buffer_size up to MaxBuf, a destination of either kind; no FileCacher
\* is at work.
InitCopy ==
  /\ kind = "Null"
  /\ store = NoFiles
  /\ staged = NoFiles
  /\ mirror = [c \in Cachers |-> NoFiles]
  /\ scratch = [c \in Cachers |-> NoFiles]
  /\ tempdir = [c \in Cachers |-> TRUE]
  /\ sentinel = FALSE
  /\ fc = [t \in Tasks |-> 1]
  /\ task = [t \in Tasks |-> OffTask]
  /\ fixedB = <<>>
  /\ \E B \in SeqsUpTo(CopyLen), n \in 1..MaxBuf, b \in BOOLEAN :
       cp = [NoCopy EXCEPT !.pc = "read", !.inp = B, !.src = B, !.size = n,
                           !.none = b]

NextCopy ==
  \/ CopyRead
  \/ CopyWrite

SpecCopy == InitCopy /\ [][NextCopy]_vars

\* Callers on one or several FileCachers that share the backend, which
\* holds or does not hold the one content they work on: puts and deletes,
\* and integrity checks that run while those are under way.  The first
\* caller runs up to MaxOps operations, each other one a single operation.
InitScan ==
  /\ kind \in Kinds
  /\ fixedB = [i \in 1..MaxLen |-> 0]
  /\ store \in {NoFiles, Stored(kind, {fixedB})}
  /\ kind = "Null" => store = NoFiles
  /\ staged = NoFiles
  /\ mirror = [c \in Cachers |-> NoFiles]
  /\ scratch = [c \in Cachers |-> NoFiles]
  /\ tempdir = [c \in Cachers |-> TRUE]
  /\ cp = NoCopy
  /\ sentinel = FALSE
  /\ fc \in [Tasks -> Cachers]
  /\ fc[1] = 1
  /\ task = [t \in Tasks |->
       IF t = 1 THEN IdleTask ELSE [IdleTask EXCEPT !.n = MaxOps - 1]]

NextScan ==
  \E t \in Tasks :
    \/ PutBegin(t, fixedB, "")
    \/ PutSteps(t)
    \/ Delete(t, Digest(fixedB))
    \/ \E del \in BOOLEAN : CheckBegin(t, del)
    \/ CheckSteps(t)

SpecScan == InitScan /\ [][NextScan]_vars

\* One caller that puts, loads and gets, on a backend that may be
\* corrupted from outside between operations.
NextCorrupt ==
  \/ \E d \in Digests, data \in Contents : Inject(d, data)
  \/ \E t \in Tasks :
       \/ \E B \in Contents : PutBegin(t, B, "")
       \/ PutSteps(t)
       \/ \E d \in Digests, ifn \in BOOLEAN : LoadBegin(t, d, ifn)
       \/ \E d \in Digests : GetBegin(t, d, "get_file_content")
       \/ LoadSteps(t)

SpecCorrupt == Init /\ [][NextCorrupt]_vars

\* One caller and all the operations, purge_cache among them.
NextPurge ==
  \/ Next
  \/ \E t \in Tasks : PurgeCache(t)

SpecPurge == Init /\ [][NextPurge]_vars

\* One caller and all the operations, on a backend that may lose blobs to
\* an external removal between operations.
NextExt ==
  \/ Next
  \/ \E d \in Digests : Remove(d)

SpecExt == Init /\ [][NextExt]_vars

\* ------------------------------------------------------------ properties
IsGet(r) == r.op \in GetForms

\* Every task is between operations.
Quiet == \A t \in Tasks : task[t].pc \in {"idle", "off"}

\* The backend holds exactly one copy of the bytes B under digest d: the
\* committed blob, and no staging artefact of d beside it.
OneBlob(d, B) ==
  /\ BExists(kind, store, staged, d)
  /\ BGetFile(kind, store, staged, d).data = B
  /\ \A i \in DOMAIN staged : staged[i].digest # d

\* C1: a put of content B that returned digest H, followed on the same
\* FileCacher by a get of H (in any of its four forms), makes the get
\* succeed with exactly the bytes B.
C1_PutThenGet ==
  \A t \in Tasks :
    LET l == task[t].last
        p == task[t].prev
    IN  (IsGet(l) /\ p.op = "put" /\ p.out = "ok" /\ l.arg = p.arg)
          => (l.out = "ok" /\ l.data = p.inp)

C1_Witness ==
  \E t \in Tasks :
    /\ task[t].last.op = "get_file_content"
    /\ task[t].prev.op = "put"
    /\ task[t].prev.out = "ok"
    /\ task[t].last.arg = task[t].prev.arg
    /\ task[t].last.data = task[t].prev.inp
    /\ task[t].prev.inp # <<>>
    /\ kind = "S3"

\* C2 as claimed: once racing puts of one content have all completed, the
\* backend, whatever its kind, holds exactly one blob under the digest of
\* the content, and every put returned that digest without raising.
C2_AsClaimed ==
  (Quiet /\ \E t \in Tasks : task[t].last.op = "put")
    => /\ OneBlob(Digest(fixedB), fixedB)
       /\ \A t \in Tasks :
            task[t].last.op = "put"
              => task[t].last.out = "ok" /\ task[t].last.arg = Digest(fixedB)

\* C2, amended: the same for every backend that persists data (filesystem,
\* relational, object storage); with the discard backend every put still
\* returns the digest without raising.
C2_RacingPuts ==
  /\ \A t \in Tasks :
       task[t].last.op = "put"
         => task[t].last.out = "ok" /\ task[t].last.arg = Digest(fixedB)
  /\ (Quiet /\ kind # "Null" /\ \E t \in Tasks : task[t].last.op = "put")
       => OneBlob(Digest(fixedB), fixedB)

C2_Witness ==
  /\ Quiet
  /\ kind = "FS"
  /\ fixedB # <<>>
  /\ \E t, u \in Tasks :
       /\ fc[t] # fc[u]
       /\ task[t].last.op = "put" /\ task[t].last.flag
       /\ task[u].last.op = "put" /\ task[u].last.flag

\* C3: when two callers held staging handles for one digest at the same
\* time, both uncommitted, neither commit raises, and once they have
\* committed the backend holds exactly one blob for the digest.
C3_RacingCommits ==
  /\ \A t \in Tasks : task[t].last.raced => task[t].last.out = "ok"
  /\ (Quiet /\ \E t \in Tasks : task[t].last.raced)
       => OneBlob(Digest(fixedB), fixedB)

C3_Witness ==
  /\ Quiet
  /\ kind = "DB"
  /\ \E t, u \in Tasks :
       /\ t # u
       /\ task[t].last.raced /\ ~task[t].last.flag
       /\ task[u].last.raced /\ task[u].last.flag

SentinelReads == {"load", "describe", "get_size"} \cup GetForms

\* C4: load, the four get forms, describe and get_size called with the
\* sentinel digest end in TombstoneError, never in KeyError, and make no
\* backend call, whatever mirror and backend hold.
C4_SentinelReads ==
  \A t \in Tasks :
    /\ (task[t].last.op \in SentinelReads /\ task[t].last.arg = TOMBSTONE_DIGEST)
         => (task[t].last.out = "TombstoneError" /\ task[t].last.calls = 0)
    /\ (task[t].op \in SentinelReads /\ task[t].arg = TOMBSTONE_DIGEST)
         => task[t].pc = "idle"

C4_Witness ==
  \E t \in Tasks :
    /\ task[t].last.op = "get_file_to_path"
    /\ task[t].last.arg = TOMBSTONE_DIGEST
    /\ task[t].last.out = "TombstoneError"
    /\ task[t].prev.op = "load"
    /\ task[t].prev.arg = TOMBSTONE_DIGEST
    /\ task[t].prev.out = "TombstoneError"
    /\ store # NoFiles

\* C5: no backend operation is ever called with the sentinel digest.
C5_NoSentinelCall == ~sentinel

C5_Witness ==
  \E t \in Tasks :
    /\ task[t].last.op = "delete"
    /\ task[t].last.arg = TOMBSTONE_DIGEST
    /\ task[t].prev.op = "save"
    /\ task[t].prev.arg = TOMBSTONE_DIGEST
    /\ ~sentinel

\* C6 as claimed: save, delete and drop called with the sentinel digest
\* end in TombstoneError.
C6_AsClaimed ==
  \A t \in Tasks :
    (task[t].last.op \in {"save", "delete", "drop"}
       /\ task[t].last.arg = TOMBSTONE_DIGEST)
      => task[t].last.out = "TombstoneError"

\* C6, amended: save called with the sentinel digest ends in
\* TombstoneError; delete and drop called with it return normally; none of
\* the three makes a backend call.
C6_SentinelWrites ==
  \A t \in Tasks :
    LET l == task[t].last
    IN  /\ (l.op = "save" /\ l.arg = TOMBSTONE_DIGEST)
             => (l.out = "TombstoneError" /\ l.calls = 0)
        /\ (l.op \in {"delete", "drop"} /\ l.arg = TOMBSTONE_DIGEST)
             => (l.out = "ok" /\ l.calls = 0)

C6_Witness ==
  \E t \in Tasks :
    /\ task[t].last.op = "drop"
    /\ task[t].last.arg = TOMBSTONE_DIGEST
    /\ task[t].last.out = "ok"
    /\ task[t].prev.op = "save"
    /\ task[t].prev.arg = TOMBSTONE_DIGEST
    /\ task[t].prev.out = "TombstoneError"

\* C7: after delete(D) of a digest D other than the sentinel has returned,
\* D is absent from the local mirror and from the backend, and a get of D
\* that follows on the same FileCacher ends in KeyError.
C7_DeleteThenGet ==
  \A t \in Tasks :
    LET l == task[t].last
        p == task[t].prev
    IN  /\ (l.op = "delete" /\ l.arg # TOMBSTONE_DIGEST /\ task[t].pc = "idle")
             => /\ l.arg \notin DOMAIN mirror[fc[t]]
                /\ ~BExists(kind, store, staged, l.arg)
        /\ (IsGet(l) /\ p.op = "delete" /\ p.arg = l.arg
              /\ l.arg # TOMBSTONE_DIGEST)
             => l.out = "KeyError"

C7_Witness ==
  \E t \in Tasks :
    /\ IsGet(task[t].last)
    /\ task[t].prev.op = "delete"
    /\ task[t].prev.arg = task[t].last.arg
    /\ task[t].prev.had
    /\ task[t].last.out = "KeyError"
    /\ kind = "S3"

\* What C8 says of one digest set DS: drop(D) takes D out of the mirror and
\* leaves every blob of the backend as it was; a get of D that follows
\* succeeds with the bytes the backend holds for D, which hash to D, when
\* the backend holds D, and ends in KeyError when it does not.
DropThenGet(DS) ==
  \A t \in Tasks :
    LET l == task[t].last
        p == task[t].prev
    IN  /\ (l.op = "drop" /\ l.arg \in DS /\ task[t].pc = "idle")
             => /\ l.arg \notin DOMAIN mirror[fc[t]]
                /\ BEntries(kind, store, staged) = l.snap
        /\ (IsGet(l) /\ p.op = "drop" /\ p.arg = l.arg /\ l.arg \in DS)
             => IF l.had
                THEN /\ l.out = "ok"
                     /\ l.data = BGetFile(kind, store, staged, l.arg).data
                     /\ Digest(l.data) = l.arg
                ELSE l.out = "KeyError"

\* C8 as claimed: for every digest.
C8_AsClaimed == DropThenGet(Digests)

\* C8, amended: for every digest other than the sentinel (a get of the
\* sentinel ends in TombstoneError, not in KeyError).
C8_DropThenGet == DropThenGet(Digests \ {TOMBSTONE_DIGEST})

C8_Witness ==
  \E t \in Tasks :
    /\ IsGet(task[t].last)
    /\ task[t].prev.op = "drop"
    /\ task[t].prev.arg = task[t].last.arg
    /\ task[t].last.had
    /\ task[t].last.out = "ok"
    /\ task[t].last.calls = 1
    /\ task[t].last.data # <<>>

\* The step ends an operation of task t.
Completes(t) ==
  /\ task'[t].pc = "idle"
  /\ task[t].pc # "idle" \/ task'[t].n > task[t].n

\* The entry p = (key, bytes) is stored under a key that is not the digest
\* of its bytes.
Mismatch(p) == Digest(p[2]) # p[1]

\* C9 as claimed: every check_backend_integrity returns a boolean, true
\* when every entry the backend held at its start hashes to its key and
\* false when one does not; with delete set, every entry that did not is
\* afterwards absent from the local mirror and from the backend.
C9_AsClaimed ==
  [][\A t \in Tasks :
       (Completes(t) /\ task'[t].last.op = "check")
         => LET l == task'[t].last
            IN  /\ l.out = "ok"
                /\ l.flag = (\A p \in l.snap : ~Mismatch(p))
                /\ l.del => \A p \in l.snap :
                     Mismatch(p) => /\ p[1] \notin DOMAIN mirror'[fc[t]]
                                    /\ ~BExists(kind, store', staged', p[1])]_vars

\* What C10 says for the backends in KS: from an empty cache and backend,
\* after each of a series of puts of one content with the default
\* description the put has returned the digest of the content, the same as
\* the put before it, and list() is exactly {(H, "")}.
SequentialPuts(KS) ==
  \A t \in Tasks :
    LET l == task[t].last
        p == task[t].prev
    IN  (task[t].mono = "same" /\ l.darg = "" /\ task[t].pc = "idle")
          => /\ l.out = "ok"
             /\ l.arg = Digest(l.inp)
             /\ p.op = "put" => p.arg = l.arg
             /\ kind \in KS
                  => /\ ~BListRaises(kind)
                     /\ BList(kind, store, staged) = {<<l.arg, "">>}

\* C10 as claimed: whatever the backend.
C10_AsClaimed == SequentialPuts(Kinds)

\* C10, amended: for the filesystem and the relational backend (the
\* discard backend lists nothing).
C10_SequentialPuts ==
  /\ SequentialPuts({"FS", "DB"})
  /\ kind = "Null" => BList(kind, store, staged) = {}

C10_Witness ==
  \E t \in Tasks :
    /\ task[t].mono = "same"
    /\ task[t].pc = "idle"
    /\ task[t].last.op = "put"
    /\ task[t].prev.op = "put"
    /\ task[t].last.darg = ""
    /\ task[t].last.inp # <<>>
    /\ kind = "FS"
    /\ BList(kind, store, staged) = {<<task[t].last.arg, "">>}
C12_MirrorComplete ==
  \A c \in Cachers : \A d \in DOMAIN mirror[c] :
    /\ d = Digest(fixedB)
    /\ mirror[c][d] = fixedB

\* A killed load left a partly written file in the scratch directory, and
\* the mirror holds the entry of the digest.
C12_Witness ==
  /\ fixedB # <<>>
  /\ Digest(fixedB) \in DOMAIN mirror[1]
  /\ \E i \in DOMAIN scratch[1] : scratch[1][i] # fixedB
  /\ \E t \in Tasks :
       /\ task[t].last.out = "GreenletExit"
       /\ task[t].last.op \in {"load", "get_file_content"}
\* C13 as claimed: no load, get or put renames a file over a mirror entry
\* that is there.
C13_AsClaimed == \A t \in Tasks : ~task[t].last.over

\* C13, amended: while the mirror holds an entry for a digest, from one
\* state to the next, its bytes stay the same; a put never replaces an
\* entry; a load, and a get that missed the mirror and loaded, may rename
\* its download over an entry that is there, and the bytes are the same.
C13_WriteOnce ==
  [][/\ \A c \in Cachers : \A d \in DOMAIN mirror[c] \cap DOMAIN mirror'[c] :
          mirror'[c][d] = mirror[c][d]
     /\ \A t \in Tasks :
          task'[t].last.over
            => /\ task'[t].last.op \in {"load"} \cup GetForms
               /\ task'[t].last.calls = 1
               /\ task'[t].last.out = "ok"]_vars

\* A load has replaced an entry that a put or another load had installed
\* while it was downloading or before it began.
C13_Witness ==
  /\ fixedB # <<>>
  /\ Digest(fixedB) \in DOMAIN mirror[1]
  /\ mirror[1][Digest(fixedB)] = fixedB
  /\ \E t \in Tasks :
       /\ task[t].last.op = "load"
       /\ task[t].last.over
       /\ task[t].prev.op = "put"
       /\ task[t].prev.out = "ok"
\* What C14 says for the backends in KS: a commit_file that stored the blob
\* returned True, and one that found the digest stored returned False.
CommitReturns(KS) ==
  \A t \in Tasks :
    LET l == task[t].last
    IN  (l.ret # "none" /\ kind \in KS)
          => l.ret = IF l.flag THEN "True" ELSE "False"

\* C14 as claimed: for every backend.
C14_AsClaimed == CommitReturns(Kinds)

\* What C15 says for the backends in KS: create_file returned None when the
\* backend held the digest, and a staging handle when it did not.
CreateReturns(KS) ==
  \A t \in Tasks :
    LET l == task[t].last
    IN  (l.got # "none" /\ kind \in KS)
          => l.got = IF l.had THEN "None" ELSE "handle"

\* C15 as claimed: for the filesystem, relational and object-storage
\* backends.
C15_AsClaimed == CreateReturns({"FS", "DB", "S3"})
\* C16: a load, get, describe or get_size whose backend call comes when
\* the backend holds no committed blob for the digest (never stored,
\* deleted, or removed from the directory of the filesystem backend after a
\* put) ends in KeyError, and the call leaves the backend as it was.
C16_AbsentReads ==
  [][\A t \in Tasks :
       (/\ Completes(t)
        /\ task[t].pc \in {"idle", "load_fetch"}
        /\ task'[t].last.op \in SentinelReads
        /\ task'[t].last.calls > 0
        /\ ~BExists(kind, store, staged, task'[t].last.arg))
         => /\ task'[t].last.out = "KeyError"
            /\ store' = store
            /\ staged' = staged]_vars

\* A put stored the blob, its file was removed from the directory of the
\* filesystem backend, and the load of the digest that followed ended in
\* KeyError.
C16_Witness ==
  /\ kind = "FS"
  /\ \E t \in Tasks :
       /\ task[t].prev.op = "put"
       /\ task[t].prev.out = "ok"
       /\ task[t].prev.flag
       /\ task[t].last.op = "load"
       /\ task[t].last.arg = task[t].prev.arg
       /\ task[t].last.calls = 1
       /\ task[t].last.out = "KeyError"
\* C17: a delete of a digest other than the sentinel never raises; after it
\* the backend holds no blob for the digest and holds every other blob and
\* staging artefact as before; when the backend held no blob for the digest
\* the delete leaves the backend as it was, so that a second delete changes
\* nothing.
C17_DeleteIdempotent ==
  [][\A t \in Tasks :
       (Completes(t) /\ task'[t].last.op = "delete"
          /\ task'[t].last.arg # TOMBSTONE_DIGEST)
         => LET d == task'[t].last.arg
            IN  /\ task'[t].last.out = "ok"
                /\ ~BExists(kind, store', staged', d)
                /\ \A e \in Digests \ {d} :
                     /\ BExists(kind, store', staged', e)
                          = BExists(kind, store, staged, e)
                     /\ BGetFile(kind, store', staged', e)
                          = BGetFile(kind, store, staged, e)
                /\ staged' = staged
                /\ ~BExists(kind, store, staged, d) => store' = store]_vars

\* Two deletes of one digest in a row: the first removed the blob, the
\* second found none, and another blob is still there.
C17_Witness ==
  \E t \in Tasks :
    /\ task[t].prev.op = "delete"
    /\ task[t].last.op = "delete"
    /\ task[t].prev.arg = task[t].last.arg
    /\ task[t].prev.had
    /\ ~task[t].last.had
    /\ task[t].last.out = "ok"
    /\ kind = "S3"
    /\ store # NoFiles
\* A reader of the backend finds digest d: get_file, describe or get_size
\* succeeds, or list() names it.
Visible(st, sg, d) ==
  \/ BGetFile(kind, st, sg, d).ok
  \/ BDescribe(kind, st, sg, d).ok
  \/ BGetSize(kind, st, sg, d).ok
  \/ \E e \in BList(kind, st, sg) : e[1] = d

\* C18: on the relational backend a digest that readers do not find comes
\* to be found only by the step in which a commit_file returns True, and the
\* handle of that commit holds the whole content, which is what readers
\* then get; neither create_file nor the copy into the large object makes
\* the digest visible.
C18_HiddenUntilCommit ==
  [][kind = "DB" =>
       \A d \in Digests :
         (~Visible(store, staged, d) /\ Visible(store', staged', d))
           => \E t \in Tasks :
                /\ task[t].pc = "commit"
                /\ task[t].arg = d
                /\ Completes(t)
                /\ task'[t].last.ret = "True"
                /\ task[t].hnd \in DOMAIN staged
                /\ staged[task[t].hnd].data = task[t].inp
                /\ BGetFile(kind, store', staged', d).data = task[t].inp]_vars

\* Between create_file and commit_file on the relational backend: the large
\* object of a put holds the whole content and no reader finds the digest.
C18_Witness ==
  /\ kind = "DB"
  /\ fixedB # <<>>
  /\ ~Visible(store, staged, Digest(fixedB))
  /\ \E t \in Tasks :
       /\ task[t].pc = "commit"
       /\ task[t].arg = Digest(fixedB)
       /\ task[t].hnd \in DOMAIN staged
       /\ staged[task[t].hnd].data = fixedB
\* C19: with the discard backend, in every state, the backend holds
\* nothing: list() is empty, get_file, describe and get_size raise KeyError
\* and create_file returns None for every digest; a commit_file returns
\* False; a put returns the digest of its content without a commit; a get
\* of the digest that follows the put is served from the mirror with the
\* bytes put, and a get that follows a drop or delete of its digest ends in
\* KeyError.
C19_Discard ==
  kind = "Null" =>
    /\ store = NoFiles /\ staged = NoFiles
    /\ ~BListRaises(kind) /\ BList(kind, store, staged) = {}
    /\ \A d \in Digests :
         /\ ~BGetFile(kind, store, staged, d).ok
         /\ ~BDescribe(kind, store, staged, d).ok
         /\ ~BGetSize(kind, store, staged, d).ok
         /\ BCreateNone(kind, store, staged, d)
    /\ \A t \in Tasks :
         LET l == task[t].last
             p == task[t].prev
         IN  /\ (l.op \in {"describe", "get_size"} /\ l.arg # TOMBSTONE_DIGEST)
                  => l.out = "KeyError"
             /\ l.got # "none" => (l.got = "None" /\ l.ret = "none")
             /\ l.op = "commit" => l.ret = "False"
             /\ l.op = "put" => (l.out = "ok" /\ l.arg = Digest(l.inp))
             /\ (IsGet(l) /\ p.op = "put" /\ l.arg = p.arg)
                  => (l.out = "ok" /\ l.data = p.inp /\ l.calls = 0)
             /\ (IsGet(l) /\ p.op \in {"drop", "delete"} /\ l.arg = p.arg
                   /\ l.arg # TOMBSTONE_DIGEST)
                  => l.out = "KeyError"

\* A put on the discard backend, then a get of its digest served from the
\* mirror.
C19_Witness ==
  /\ kind = "Null"
  /\ \E t \in Tasks :
       /\ task[t].prev.op = "put"
       /\ task[t].prev.got = "None"
       /\ task[t].prev.inp # <<>>
       /\ IsGet(task[t].last)
       /\ task[t].last.arg = task[t].prev.arg
       /\ task[t].last.data = task[t].prev.inp
       /\ task[t].last.calls = 0
\* What C20 says of the saves that ended in one of the outcomes in OS: save
\* called create_file once; when that returned None, save returned with no
\* other backend call; when it returned a handle, save called commit_file
\* once, after the copy, and a blob that this commit stored has the bytes of
\* the mirror entry.
SaveCalls(OS) ==
  \A t \in Tasks :
    LET l == task[t].last
    IN  (l.op = "save" /\ l.out \in OS)
          => /\ l.got # "none"
             /\ l.out = "ok"
             /\ IF l.got = "None"
                THEN l.calls = 1 /\ l.ret = "none"
                ELSE l.calls = 2 /\ l.ret # "none"
             /\ (l.flag /\ l.arg \in DOMAIN mirror[fc[t]])
                  => BGetFile(kind, store, staged, l.arg).data
                       = mirror[fc[t]][l.arg]

\* C20 as claimed: for every save of a digest other than the sentinel.
C20_AsClaimed == SaveCalls({"ok", "IOError", "OSError", "GreenletExit"})
\* C21: a put that returns leaves a committed blob for the digest of its
\* content in every persisting backend, whether the put found the digest in
\* the mirror or not, and also when the backend had lost the blob that the
\* mirror still held.
C21_PutAlwaysSaves ==
  [][\A t \in Tasks :
       (/\ Completes(t)
        /\ task'[t].last.op = "put"
        /\ task'[t].last.out = "ok"
        /\ kind # "Null")
         => /\ task'[t].last.arg = Digest(task'[t].last.inp)
            /\ task'[t].last.calls > 0
            /\ BExists(kind, store', staged', task'[t].last.arg)]_vars

\* A load put the digest in the mirror, the backend lost the blob, and the
\* put of the same content on that FileCacher stored it again.
C21_Witness ==
  /\ kind = "DB"
  /\ \E t \in Tasks :
       /\ task[t].prev.op = "load"
       /\ task[t].prev.out = "ok"
       /\ task[t].prev.calls = 1
       /\ task[t].last.op = "put"
       /\ task[t].last.out = "ok"
       /\ task[t].last.arg = task[t].prev.arg
       /\ task[t].last.flag
       /\ task[t].last.arg \in DOMAIN mirror[fc[t]]
       /\ BExists(kind, store, staged, task[t].last.arg)
\* C22: a load with if_needed of a digest the mirror holds returns at once,
\* with no backend call and with mirror, scratch directory and backend as
\* they were; a load of a digest the mirror does not hold goes to the
\* backend, calls it once, succeeds exactly when the backend holds the
\* digest, and on success the mirror entry of the digest has the bytes the
\* backend has for it.
C22_LoadFrame ==
  [][\A t \in Tasks :
       LET c == fc[t]
           l == task'[t].last
           ends == task'[t].pc = "idle"
           begins == /\ task[t].pc = "idle"
                     /\ task'[t].n > task[t].n
                     /\ IF ends THEN l.op = "load" ELSE task'[t].op = "load"
           d == IF ends THEN l.arg ELSE task'[t].arg
           ifn == IF ends THEN l.ifn ELSE task'[t].ifn
       IN  /\ (begins /\ ifn /\ d \in DOMAIN mirror[c])
                 => /\ ends
                    /\ l.out = "ok"
                    /\ l.calls = 0
                    /\ mirror' = mirror
                    /\ scratch' = scratch
                    /\ store' = store
                    /\ staged' = staged
           /\ (begins /\ d # TOMBSTONE_DIGEST /\ d \notin DOMAIN mirror[c])
                 => task'[t].pc = "load_fetch"
           /\ (/\ task[t].pc # "idle"
                /\ Completes(t)
                /\ l.op = "load")
                 => /\ l.calls = 1
                    /\ (l.out = "ok") <=> BExists(kind, store', staged', l.arg)
                    /\ l.out = "ok"
                         => /\ l.arg \in DOMAIN mirror'[c]
                            /\ mirror'[c][l.arg]
                                 = BGetFile(kind, store', staged', l.arg).data]_vars

\* A load fetched a non-empty blob into the mirror, and the load with
\* if_needed of the same digest that followed returned without a backend
\* call.
C22_Witness ==
  \E t \in Tasks :
    /\ task[t].prev.op = "load"
    /\ task[t].prev.out = "ok"
    /\ task[t].prev.calls = 1
    /\ task[t].last.op = "load"
    /\ task[t].last.ifn
    /\ task[t].last.arg = task[t].prev.arg
    /\ task[t].last.out = "ok"
    /\ task[t].last.calls = 0
    /\ task[t].last.arg \in DOMAIN mirror[fc[t]]
    /\ mirror[fc[t]][task[t].last.arg] # <<>>
    /\ mirror[fc[t]][task[t].last.arg]
         = BGetFile(kind, store, staged, task[t].last.arg).data
\* C23: a get of a digest the mirror holds returns the bytes of the mirror
\* with no backend call and nothing changed, whether the backend still holds
\* the digest or not; a get of a digest the mirror does not hold calls the
\* backend once through load, and ends in KeyError after that one call when
\* the backend does not hold the digest.
C23_GetFromMirror ==
  [][\A t \in Tasks :
       LET c == fc[t]
           l == task'[t].last
           ends == task'[t].pc = "idle"
           begins == /\ task[t].pc = "idle"
                     /\ task'[t].n > task[t].n
                     /\ IF ends THEN IsGet(l) ELSE task'[t].op \in GetForms
           d == IF ends THEN l.arg ELSE task'[t].arg
       IN  /\ (begins /\ d \in DOMAIN mirror[c])
                 => /\ ends
                    /\ l.out = "ok"
                    /\ l.data = mirror[c][d]
                    /\ l.calls = 0
                    /\ mirror' = mirror
                    /\ scratch' = scratch
                    /\ store' = store
                    /\ staged' = staged
           /\ (begins /\ d # TOMBSTONE_DIGEST /\ d \notin DOMAIN mirror[c])
                 => task'[t].pc = "load_fetch"
           /\ (/\ task[t].pc # "idle"
                /\ Completes(t)
                /\ IsGet(l))
                 => /\ l.calls = 1
                    /\ ~BExists(kind, store', staged', l.arg)
                         => l.out = "KeyError"
                    /\ BExists(kind, store', staged', l.arg)
                         => /\ l.out = "ok"
                            /\ l.data = BGetFile(kind, store', staged', l.arg).data]_vars

\* A load brought a non-empty blob into the mirror, the backend lost it, and
\* the get that followed returned the bytes without a backend call.
C23_Witness ==
  \E t \in Tasks :
    /\ task[t].prev.op = "load"
    /\ task[t].prev.out = "ok"
    /\ IsGet(task[t].last)
    /\ task[t].last.arg = task[t].prev.arg
    /\ task[t].last.out = "ok"
    /\ task[t].last.calls = 0
    /\ task[t].last.data # <<>>
    /\ task[t].last.data = mirror[fc[t]][task[t].last.arg]
    /\ ~BExists(kind, store, staged, task[t].last.arg)
\* C24: purge_cache leaves the mirror of its FileCacher with no entry and
\* leaves the backend as it was: the same committed digests with the same
\* bytes and the same staging artefacts, and get_file of the backend answers
\* for every digest what it answered before.
C24_PurgeKeepsBackend ==
  [][\A t \in Tasks :
       (/\ task[t].pc = "idle"
        /\ task'[t].pc = "idle"
        /\ task'[t].n > task[t].n
        /\ task'[t].last.op = "purge_cache")
         => /\ task'[t].last.out = "ok"
            /\ mirror'[fc[t]] = NoFiles
            /\ store' = store
            /\ staged' = staged
            /\ BEntries(kind, store', staged') = task'[t].last.snap
            /\ \A d \in Digests :
                 BGetFile(kind, store', staged', d)
                   = BGetFile(kind, store, staged, d)]_vars

\* A load brought a non-empty blob into the mirror, purge_cache emptied the
\* mirror, and the backend still gives the blob.
C24_Witness ==
  \E t \in Tasks :
    /\ task[t].prev.op = "load"
    /\ task[t].prev.out = "ok"
    /\ task[t].prev.calls = 1
    /\ task[t].last.op = "purge_cache"
    /\ mirror[fc[t]] = NoFiles
    /\ BGetFile(kind, store, staged, task[t].prev.arg).ok
    /\ BGetFile(kind, store, staged, task[t].prev.arg).data # <<>>
\* C25: no step of a check_backend_integrity with delete disabled changes
\* the backend or the mirror; with delete enabled a step only takes away
\* blobs, a blob stored under the digest of its bytes stays in the backend,
\* and a mirror entry goes away only when the backend held bytes of another
\* digest under its name.
C25_CheckFrame ==
  [][\A t \in Tasks :
       LET c == fc[t]
           del == IF task[t].pc = "check" THEN task[t].del ELSE task'[t].del
           before == BEntries(kind, store, staged)
           after == BEntries(kind, store', staged')
       IN  (\/ task[t].pc = "check"
            \/ task'[t].pc = "check"
            \/ task[t].pc = "idle" /\ Completes(t) /\ task'[t].last.op = "check")
             => /\ ~del => (store' = store /\ staged' = staged /\ mirror' = mirror)
                /\ after \subseteq before
                /\ \A e \in before : ~Mismatch(e) => e \in after
                /\ \A d \in DOMAIN mirror[c] :
                     \/ /\ d \in DOMAIN mirror'[c]
                        /\ mirror'[c][d] = mirror[c][d]
                     \/ \E e \in before : e[1] = d /\ Mismatch(e)]_vars

\* A check with delete enabled took a corrupted blob away and returned
\* false, and the blob of the put before it is still in the backend and in
\* the mirror.
C25_Witness ==
  \E t \in Tasks :
    /\ task[t].prev.op = "put"
    /\ task[t].prev.out = "ok"
    /\ task[t].last.op = "check"
    /\ task[t].last.del
    /\ task[t].last.out = "ok"
    /\ ~task[t].last.flag
    /\ \E e \in task[t].last.snap :
         Mismatch(e) /\ e \notin BEntries(kind, store, staged)
    /\ <<task[t].prev.arg, task[t].prev.inp>> \in BEntries(kind, store, staged)
    /\ task[t].prev.arg \in DOMAIN mirror[fc[t]]
\* C26: on the relational backend, create_file on a catalogued digest
\* returns None and allocates no large object; every put ends without
\* raising, its commit returning True or False; a commit leaves its large
\* object either referenced by the catalog row it inserted or unlinked, a
\* commit that returns False leaving the catalog as it was; and when all the
\* racing puts have ended no unreferenced large object is left and the
\* catalog has the row of the digest.
C26_LargeObjects ==
  [][kind = "DB" =>
       /\ \A t \in Tasks :
            LET l == task'[t].last
            IN  /\ (/\ task[t].pc = "save_create"
                     /\ task'[t].pc # "save_create"
                     /\ task[t].arg \in DOMAIN store)
                      => /\ staged' = staged
                         /\ task'[t].pc = "idle"
                         /\ l.got = "None"
                /\ (Completes(t) /\ l.op = "put")
                      => /\ l.out = "ok"
                         /\ l.ret \in {"none", "True", "False"}
                /\ (Completes(t) /\ task[t].pc = "commit")
                      => /\ task[t].hnd \notin DOMAIN staged'
                         /\ l.ret = "False" => store' = store
                         /\ l.ret = "True"
                              => /\ l.arg \notin DOMAIN store
                                 /\ store'[l.arg].data = staged[task[t].hnd].data
       /\ (Quiet' /\ ~Quiet)
            => /\ staged' = NoFiles
               /\ Digest(fixedB) \in DOMAIN store']_vars

\* Two puts raced on the relational backend: one commit inserted the row,
\* the other hit the uniqueness violation and returned False, and no large
\* object is left unreferenced.
C26_Witness ==
  /\ kind = "DB"
  /\ Quiet
  /\ staged = NoFiles
  /\ \E t, u \in Tasks :
       /\ task[t].last.op = "put"
       /\ task[t].last.ret = "True"
       /\ task[u].last.op = "put"
       /\ task[u].last.ret = "False"
       /\ task[u].last.arg = task[t].last.arg
       /\ task[t].last.arg \in DOMAIN store
\* C27 as claimed: on the object-storage backend every stored object has
\* the key prefix + first two characters of its digest + "/" + digest, and
\* a call of list() (here the one check_backend_integrity starts with)
\* returns exactly one entry for every stored object, the digest being the
\* trailing path segment of its key.
C27_AsClaimed ==
  [][\A t \in Tasks :
       (/\ kind = "S3"
        /\ task[t].pc = "idle"
        /\ task'[t].n > task[t].n
        /\ task'[t].pc = "check" \/ task'[t].last.op = "check")
         => /\ \A key \in DOMAIN store :
                 \E d \in Digests :
                   key = S3Prefix \o SubSeq(d, 1, 2) \o <<"/">> \o d
            /\ task'[t].pc = "check"
            /\ task'[t].todo = {e[1] : e \in BEntries(kind, store, staged)}
            /\ Cardinality(task'[t].todo) = Cardinality(DOMAIN store)]_vars
\* C28 as claimed: whatever the backend and however commit_file ends (blob
\* stored, blob already there, or an error of the backend), the staging
\* artefact of the handle it was given, temporary file or unreferenced
\* large object, is gone when it has ended.
C28_AsClaimed ==
  [][\A t \in Tasks :
       (/\ task[t].pc \in {"commit", "commit2"}
        /\ task[t].hnd \in DOMAIN staged
        /\ Completes(t))
         => task[t].hnd \notin DOMAIN staged']_vars
\* C29: at every point of a copyfileobj run the bytes written, the bytes in
\* the buffer and the bytes not yet read are, in this order, the source; the
\* buffer is never longer than buffer_size; and when the copy has ended, at
\* the first empty read, the destination holds exactly the source.
C29_CopyExact ==
  cp.pc # "off"
    => /\ cp.dst \o cp.buf \o cp.src = cp.inp
       /\ Len(cp.buf) <= cp.size
       /\ cp.pc = "done" => (cp.dst = cp.inp /\ cp.buf = <<>> /\ cp.src = <<>>)

\* A copy of a source of the greatest length, with a buffer shorter than
\* the source and a destination that took only part of a buffer in one
\* write, has ended with the source in the destination.
C29_Witness ==
  /\ cp.pc = "done"
  /\ Len(cp.inp) = CopyLen
  /\ cp.size > 1
  /\ cp.size < Len(cp.inp)
  /\ cp.short
  /\ cp.dst = cp.inp
\* C30 as claimed: each chunk a streaming loop handles, in copyfileobj (save
\* and load), in the hash-and-copy loop of put and in the re-hash loop of
\* check_backend_integrity, is followed by a yield point, so that the
\* sibling greenlets may run before the next chunk.
C30_AsClaimed ==
  [][\A t \in Tasks :
       LET chunk ==
             \/ task[t].pc \in {"put_copy", "save_copy", "load_copy"}
                  /\ Len(task'[t].src) < Len(task[t].src)
             \/ /\ task[t].pc = "check"
                /\ \E d \in task[t].todo \ task'[t].todo :
                     BGetFile(kind, store, staged, d).data # <<>>
       IN  (chunk /\ task'[t].pc # "idle") => ~task'[t].ny]_vars
\* C31: when the only operations of two greenlets of one FileCacher were a
\* get or a load of one digest that the backend holds, each of which went
\* to the backend, both have ended without error, every get among them
\* returned the whole blob, and the mirror holds the whole blob under the
\* digest and nothing under any other name.
C31_RacingLoads ==
  \A t, u \in Tasks :
    LET a == task[t].last
        b == task[u].last
        d == Digest(fixedB)
    IN  (/\ t # u
         /\ fc[t] = fc[u]
         /\ Quiet
         /\ \A v \in Tasks : task[v].prev.op = "none"
         /\ a.op \in GetForms \cup {"load"}
         /\ b.op \in GetForms \cup {"load"}
         /\ a.arg = d /\ b.arg = d
         /\ a.calls = 1 /\ b.calls = 1
         /\ a.out # "GreenletExit" /\ b.out # "GreenletExit"
         /\ BExists(kind, store, staged, d))
          => /\ a.out = "ok" /\ b.out = "ok"
             /\ IsGet(a) => a.data = fixedB
             /\ IsGet(b) => b.data = fixedB
             /\ DOMAIN mirror[fc[t]] = {d}
             /\ mirror[fc[t]][d] = fixedB

\* Two gets of the digest both missed the mirror and both downloaded; the
\* second to finish replaced the entry of the first, and both returned the
\* blob.
C31_Witness ==
  \E t, u \in Tasks :
    /\ t # u
    /\ Quiet
    /\ task[t].last.op = "get_file_content"
    /\ task[u].last.op = "get_file_content"
    /\ task[t].last.calls = 1
    /\ task[u].last.calls = 1
    /\ task[t].last.over
    /\ task[t].last.out = "ok"
    /\ task[u].last.out = "ok"
    /\ task[t].last.data = fixedB
    /\ task[u].last.data = fixedB
    /\ fixedB # <<>>
    /\ mirror[fc[t]][Digest(fixedB)] = fixedB
\* C32 as claimed: after a purge_cache the directory temp_dir of the
\* FileCacher is there, and the operation that follows it on the same
\* FileCacher succeeds when it is a put, or a get or load of a digest that
\* the backend holds.
C32_AsClaimed ==
  \A t \in Tasks :
    LET l == task[t].last
        p == task[t].prev
    IN  /\ (task[t].pc = "idle" /\ l.op = "purge_cache") => tempdir[fc[t]]
        /\ (task[t].pc = "idle" /\ p.op = "purge_cache" /\ p.out = "ok")
              => /\ l.op = "put" => l.out = "ok"
                 /\ (/\ l.op \in GetForms \cup {"load"}
                     /\ l.arg # TOMBSTONE_DIGEST
                     /\ BExists(kind, store, staged, l.arg))
                      => l.out = "ok"
\* C33 as claimed: a load or get that ends in KeyError because the backend
\* does not hold the digest leaves the mirror and the directory temp_dir of
\* its FileCacher holding what they held before.
C33_AsClaimed ==
  [][\A t \in Tasks :
       (/\ Completes(t)
        /\ task'[t].last.op \in GetForms \cup {"load"}
        /\ task'[t].last.out = "KeyError")
         => /\ mirror'[fc[t]] = mirror[fc[t]]
            /\ scratch'[fc[t]] = scratch[fc[t]]]_vars
\* C34 as claimed: on the filesystem backend the list() a check starts with
\* gives committed digests only, and no step of a check takes a staging
\* file away.
C34_AsClaimed ==
  [][\A t \in Tasks :
       kind = "FS"
         => /\ (task[t].pc = "idle" /\ task'[t].pc = "check")
                 => task'[t].todo \subseteq DOMAIN store
            /\ (task[t].pc = "check" /\ task'[t] # task[t])
                 => staged' = staged]_vars
\* C35 as claimed: a load or get that was suspended in its download while
\* a delete of its digest ran on the same FileCacher (the backend, which
\* gave the blob to the download, holds it no more) ends without leaving an
\* entry for the digest in the mirror.
C35_AsClaimed ==
  [][\A u \in Tasks :
       (/\ task[u].pc = "load_install"
        /\ Completes(u)
        /\ ~BExists(kind, store, staged, task[u].arg)
        /\ \E t \in Tasks \ {u} :
             /\ fc[t] = fc[u]
             /\ task[t].last.op = "delete"
             /\ task[t].last.arg = task[u].arg)
         => task[u].arg \notin DOMAIN mirror'[fc[u]]]_vars
\* C36 as claimed: in every state, whatever the backend holds, each entry
\* of each mirror holds bytes whose digest is the name of the entry.
C36_AsClaimed ==
  \A c \in Cachers :
    \A d \in DOMAIN mirror[c] : Digest(mirror[c][d]) = d
\* C37 as claimed: on a backend whose list() works, a
\* check_backend_integrity ends by returning a boolean also when a digest
\* that its list() gave was deleted from the backend by another caller
\* before the check read it.
C37_AsClaimed ==
  [][\A t \in Tasks :
       (/\ Completes(t)
        /\ task'[t].last.op = "check"
        /\ ~BListRaises(kind))
         => task'[t].last.out = "ok"]_vars
\* C38 as claimed: an operation that holds a staging handle which
\* create_file gave to its save, and that is not killed, ends only through
\* commit_file, and the staging artefact of the handle is gone then; this
\* also when the mirror entry of the digest is missing when save opens it.
C38_AsClaimed ==
  [][\A t \in Tasks :
       (/\ Completes(t)
        /\ task[t].hnd \in DOMAIN staged
        /\ task[t].pc \in {"save_open", "save_copy", "commit", "commit2"}
        /\ task'[t].last.out # "GreenletExit")
         => /\ task[t].pc \in {"commit", "commit2"}
            /\ task[t].hnd \notin DOMAIN staged']_vars
\* What C39 says of the commits of one digest that raced on the filesystem
\* backend, once all have ended: each returned True or False, no staging
\* file is left in the directory, the directory holds the blob once, and at
\* least one commit returned True; when same is set, exactly one did
\* whatever the processes of the writers, else exactly one did among
\* writers of one process.
RacingFSCommits(same) ==
  \A t, u \in Tasks :
    (/\ kind = "FS"
     /\ Quiet
     /\ t # u
     /\ task[t].last.raced
     /\ task[u].last.raced)
      => /\ task[t].last.ret \in {"True", "False"}
         /\ task[u].last.ret \in {"True", "False"}
         /\ task[t].last.ret = "True" \/ task[u].last.ret = "True"
         /\ (same \/ fc[t] = fc[u])
              => ~(task[t].last.ret = "True" /\ task[u].last.ret = "True")
         /\ staged = NoFiles
         /\ OneBlob(Digest(fixedB), fixedB)

\* C39 as claimed: exactly one of the racing commits returns True, also
\* among writers in different processes that share the directory.
C39_AsClaimed == RacingFSCommits(TRUE)

\* C39, amended: at least one of the racing commits returns True; exactly
\* one does among the writers of one process, and two writers in different
\* processes may both find the digest absent, both rename and both return
\* True.  No staging file remains and the directory holds the blob once.
C39_RacingFSCommits == RacingFSCommits(FALSE)

\* Two processes raced on the filesystem backend and both commits returned
\* True; a single blob and no staging file are left.
C39_Witness ==
  /\ kind = "FS"
  /\ Quiet
  /\ staged = NoFiles
  /\ \E t, u \in Tasks :
       /\ fc[t] # fc[u]
       /\ task[t].last.raced /\ task[t].last.ret = "True"
       /\ task[u].last.raced /\ task[u].last.ret = "True"
       /\ OneBlob(Digest(fixedB), fixedB)
\* C40: on the relational backend the description of a catalogued digest
\* does not change as long as the digest stays catalogued, whatever put or
\* save comes with another description; the commit that stores a digest
\* gives the row the description of its save; and describe returns the
\* description of the row.
C40_FirstDescription ==
  [][kind = "DB" =>
       /\ \A d \in DOMAIN store \cap DOMAIN store' :
            store'[d].desc = store[d].desc
       /\ \A t \in Tasks :
            LET l == task'[t].last
            IN  /\ (/\ Completes(t)
                     /\ l.op \in {"put", "save"}
                     /\ l.flag)
                      => /\ l.arg \notin DOMAIN store
                         /\ store'[l.arg].desc = l.darg
                /\ (/\ Completes(t)
                     /\ l.op = "describe"
                     /\ l.out = "ok")
                      => l.desc = store[l.arg].desc]_vars

\* A put with another description found the digest catalogued, and the
\* describe that followed returned the description the digest was first
\* stored with.
C40_Witness ==
  /\ kind = "DB"
  /\ \E t \in Tasks :
       /\ task[t].prev.op = "put"
       /\ task[t].prev.out = "ok"
       /\ task[t].prev.darg = "d"
       /\ task[t].prev.got = "None"
       /\ task[t].last.op = "describe"
       /\ task[t].last.arg = task[t].prev.arg
       /\ task[t].last.out = "ok"
       /\ task[t].last.desc = ""
====
